---- MODULE Spec2Model ----
(***************************************************************************)
(* A model of ncbi-taxonomy-local: the class-level taxonomy store of the   *)
(* two backends (TaxonomyRAM, TaxonomySQL), its load and reload, and the   *)
(* identifier-resolution and tree queries that run against it.             *)
(*                                                                         *)
(* Taxids are modelled as integers.  TaxonomyRAM keys its dictionaries by  *)
(* str(taxid); str is injective on integers, so the keys of the model are  *)
(* the integers themselves.                                                *)
(*                                                                         *)
(* TaxonomySQL.init calls super().init(check_for_updates) although         *)
(* Taxonomy.init takes no argument; the model follows the bodies of the    *)
(* two methods in the order in which that call runs them.                  *)
(*                                                                         *)
(* taxonomy_ram.py imports NAME_CLASS_SET from .config, which defines no   *)
(* such name; the model follows the method bodies with the name classes of *)
(* NAME_CLASSES of taxonomy_base.py.  Every node of every dump has a       *)
(* scientific name, so the names that TaxonomyRAM.lineage_for_taxid looks  *)
(* up with its default name class are always there; the name and rank      *)
(* queries run against dumps that vary the other rows of the names table   *)
(* and the ranks.                                                          *)
(***************************************************************************)
EXTENDS Integers, Sequences, FiniteSets, TLC

VARIABLES
    backend,                  \* "RAM" (TaxonomyRAM) or "SQL" (TaxonomySQL)
    remote_gen,               \* the release of taxdmp.zip published at NCBI
    dmp,                      \* the taxdmp directory on disk
    paths,                    \* cls._paths is not None
    taxonomy_initialized,     \* cls._taxonomy_initialized
    tab,                      \* release each of the six tables was loaded from
    taxids_child_parent_dict, \* RAM dict / SQL tx_nodes.parent_tax_id
    taxids_parent_children_dict, \* RAM dict: the list of children of each parent
    taxids_merged_dict,       \* RAM dict / SQL tx_merged_nodes
    taxids_deleted_set,       \* RAM set  / SQL tx_deleted_nodes
    taxids_rank_dict,         \* RAM dict / SQL tx_nodes.rank
    tx_names,                 \* the rows of names.dmp: RAM dicts / SQL tx_names
    codons,                   \* cls._codons, the codons of gc.prt in its order
    gen_code_id_translation_table_dict,  \* genetic code id -> amino acids
    gen_code_id_start_codons_dict,       \* genetic code id -> start/stop marks
    taxids_genetic_code_id_dict,      \* RAM dict / SQL tx_nodes.genetic_code_id
    taxids_mito_genetic_code_id_dict, \* RAM dict / SQL mitochondrial_genetic_code_id
    db_commits,               \* SQL: commits of populate_db that reached the database
    taxid_node_dict,          \* SQL: cls._taxid_node_dict, the taxid -> Node cache
    reloads,                  \* number of reloads of an initialized store so far
    pc,                       \* position of the running init / update ("idle": none)
    ret,                      \* the last call and what it gave its caller
    zip_file,                 \* taxdmp.zip of a download under way (0: no such file)
    md5_file,                 \* taxdmp.zip.md5 of a download under way (<<>>: no such file)
    attempt                   \* nested calls of dnld_zip_check_md5_then_extract

\* the files and the call depth of a download of the dump
dnld == <<zip_file, md5_file, attempt>>

vars == <<backend, dnld, remote_gen, dmp, paths, taxonomy_initialized, tab,
          taxids_child_parent_dict, taxids_parent_children_dict, taxids_merged_dict, taxids_deleted_set,
          taxids_rank_dict, tx_names, codons,
          gen_code_id_translation_table_dict, gen_code_id_start_codons_dict,
          taxids_genetic_code_id_dict, taxids_mito_genetic_code_id_dict,
          db_commits, taxid_node_dict, reloads, pc, ret>>

(***************************************************************************)
(* Bounds of the model.                                                    *)
(***************************************************************************)
\* taxids 1..MaxTaxid may be nodes of a dump
MaxTaxid == 3
\* releases of the dump that NCBI publishes during a run
MaxGen == 2
\* the interpreter's recursion limit (sys.getrecursionlimit()), scaled down
RecursionLimit == 6
\* reloads of a loaded store after which no file of the dump is lost any more
MaxReloads == 1
\* codons of gc.prt that the model keeps: the first NumCodons of its 64
NumCodons == 2

root_taxid == 1

TaxIds == 1..MaxTaxid
\* the taxids a caller asks about: one more than any node of a dump
QueryIds == 1..(MaxTaxid + 1)

Backends == {"RAM", "SQL"}

(***************************************************************************)
(* Small helpers.                                                          *)
(***************************************************************************)
EmptyFn == [x \in {} |-> 0]

Max(S) == CHOOSE x \in S : \A y \in S : y <= x
Min(S) == CHOOSE x \in S : \A y \in S : x <= y

RECURSIVE SortedSeq(_)
SortedSeq(S) == IF S = {} THEN <<>> ELSE <<Min(S)>> \o SortedSeq(S \ {Min(S)})

Reverse(s) == [i \in 1..Len(s) |-> s[Len(s) + 1 - i]]

ToSet(s) == {s[i] : i \in 1..Len(s)}

(***************************************************************************)
(* What a call gives its caller.                                           *)
(*   k = "int"   : returns the integer v                                   *)
(*   k = "bool"  : returns the boolean b                                   *)
(*   k = "none"  : returns None                                            *)
(*   k = "seq"   : returns the list s of taxids                            *)
(*   k = "set"   : returns the set st of taxids                            *)
(*   k = "node"  : returns the Node with tax_id v, put in the cache when   *)
(*                 the store had been reloaded `stamps` times              *)
(*   k = "nodes" : returns the list of Nodes with the tax_ids s            *)
(*   k = "str"   : returns the string e                                    *)
(*   k = "name"  : returns the name s, a sequence of characters            *)
(*   k = "names" : returns the list s of names                             *)
(*   k = "dict"  : returns the dictionary d, a function                    *)
(*   k = "raise" : raises the exception e                                  *)
(***************************************************************************)
NoOut == [k |-> "idle", v |-> 0, b |-> FALSE, e |-> "", s |-> <<>>, st |-> {},
          stamps |-> {}, d |-> <<>>]
RetInt(v) == [NoOut EXCEPT !.k = "int", !.v = v]
RetBool(b) == [NoOut EXCEPT !.k = "bool", !.b = b]
RetNone == [NoOut EXCEPT !.k = "none"]
RetSeq(s) == [NoOut EXCEPT !.k = "seq", !.s = s]
RetSet(st) == [NoOut EXCEPT !.k = "set", !.st = st]
RetStr(e) == [NoOut EXCEPT !.k = "str", !.e = e]
RetNode(n) == [NoOut EXCEPT !.k = "node", !.v = n.tax_id, !.stamps = {n.stamp}]
RetNodes(ns) == [NoOut EXCEPT !.k = "nodes",
                              !.s = [i \in 1..Len(ns) |-> ns[i].tax_id],
                              !.stamps = {ns[i].stamp : i \in 1..Len(ns)}]
Raise(e) == [NoOut EXCEPT !.k = "raise", !.e = e]

(***************************************************************************)
(* The dump: the files of the taxdmp directory.  gen = 0: files missing.   *)
(***************************************************************************)
\* codes: what the dump says of genetic codes.  codons is gc.prt, tt and sc
\* are the translation table and the start codons of each row of gencode.dmp,
\* gc and mito the genetic code columns of nodes.dmp.
NoCodes == [codons |-> <<>>, tt |-> EmptyFn, sc |-> EmptyFn, gc |-> EmptyFn,
            mito |-> EmptyFn]

NoDump == [gen |-> 0, nodes |-> EmptyFn, merged |-> EmptyFn, deleted |-> {},
           ranks |-> EmptyFn, names |-> <<>>, codes |-> NoCodes]

\* codons_from_gc_prt_file: the i-th codon is the i-th letters of the lines
\* Base1, Base2 and Base3 of gc.prt, which count through TCAG with Base3
\* running fastest.  A codon is the sequence of its three letters.
Bases == <<"T", "C", "A", "G">>
codons_from_gc_prt_file ==
    [i \in 1..NumCodons |->
        <<Bases[(((i - 1) \div 16) % 4) + 1], Bases[(((i - 1) \div 4) % 4) + 1],
          Bases[((i - 1) % 4) + 1]>>]

\* the marks a row of gencode.dmp gives a codon: an amino acid or '*' in
\* the translation table, 'M', '*' or '-' in the start codons
AminoMarks == {"F", "*"}
StartMarks == {"M", "*", "-"}

\* the genetic code with id 1 in the dumps that do not vary it: every codon
\* codes for F, the first is a start and the last a stop
StandardTT == [i \in 1..NumCodons |-> IF i = NumCodons THEN "*" ELSE "F"]
StandardSC == [i \in 1..NumCodons |->
                  IF i = 1 THEN "M" ELSE IF i = NumCodons THEN "*" ELSE "-"]

\* the ids of the genetic codes of gencode.dmp in the model: 0 (unspecified),
\* 1 (standard), 2 (vertebrate mitochondrial)
GenCodeIds == {0, 1, 2}

\* the genetic codes of the nodes of A: code 1 and no mitochondrial code (the
\* '0' of nodes.dmp), but for the node MaxTaxid, which has code 2 for both
StandardCodes(A) ==
    [codons |-> codons_from_gc_prt_file,
     tt |-> [g \in GenCodeIds |-> StandardTT],
     sc |-> [g \in GenCodeIds |-> StandardSC],
     gc |-> [n \in A |-> IF n = MaxTaxid THEN 2 ELSE 1],
     mito |-> [n \in A |-> IF n = MaxTaxid THEN 2 ELSE 0]]

\* A name is the sequence of its characters.  ScientificName(n) is the
\* scientific name that the dumps give node n: the digits of n.
ScientificName(n) == <<ToString(n)>>

\* a row of names.dmp: tax_id | name | unique name | name class (the unique
\* name is read and stored, and no query looks at it)
NameRow(tax_id, name, name_class) ==
    [tax_id |-> tax_id, name |-> name, name_class |-> name_class]

\* names.dmp with one row per node of A, its scientific name, by ascending
\* tax_id, and nodes.dmp with the rank 'no rank' in every row
ScientificNames(A) ==
    [i \in 1..Cardinality(A) |->
        NameRow(SortedSeq(A)[i], ScientificName(SortedSeq(A)[i]), "scientific name")]
NoRanks(A) == [n \in A |-> "no rank"]

\* nodes.dmp of release g: a chain in odd releases, a star in even ones
ReleaseNodes(g) ==
    [n \in TaxIds |-> IF n = root_taxid THEN root_taxid
                      ELSE IF g % 2 = 1 THEN n - 1 ELSE root_taxid]

\* Release g of the dump. The taxid MaxTaxid + 1 was merged into MaxTaxid in
\* the odd releases and is deleted in the even ones.
Release(g) ==
    [gen |-> g,
     nodes |-> ReleaseNodes(g),
     merged |-> IF g % 2 = 1 THEN [o \in {MaxTaxid + 1} |-> MaxTaxid] ELSE EmptyFn,
     deleted |-> IF g % 2 = 1 THEN {} ELSE {MaxTaxid + 1},
     ranks |-> NoRanks(TaxIds),
     names |-> ScientificNames(TaxIds),
     codes |-> StandardCodes(TaxIds)]

\* node tables over a set A of taxids that holds the root
StarNodes(A) == [n \in A |-> root_taxid]
NodeTables(A) == {f \in [A -> A] : f[root_taxid] = root_taxid}
ActiveSets == {A \in SUBSET TaxIds : root_taxid \in A}

\* merged.dmp with at most one row, old -> new
MergedTables(Olds, News) ==
    {EmptyFn} \cup
    UNION {{[o \in {old} |-> new] : new \in News \ {old}} : old \in Olds}

\* Dumps that vary which table a taxid is in: any taxid may be a node, the old
\* id of a merge and a deleted id at once.
ResolveDumps ==
    UNION {{[gen |-> 1, nodes |-> StarNodes(A), merged |-> m, deleted |-> d,
              ranks |-> NoRanks(A), names |-> ScientificNames(A),
              codes |-> StandardCodes(A)] :
              m \in MergedTables(QueryIds, A),
              d \in {{}} \cup {{x} : x \in QueryIds}} :
           A \in ActiveSets}

\* Dumps that vary the parent pointers: every node table with the root row
\* 1 -> 1, cyclic ones included; at most one merge, of a retired id into a node.
TreeDumps ==
    UNION {{[gen |-> 1, nodes |-> f, merged |-> m, deleted |-> {},
              ranks |-> NoRanks(A), names |-> ScientificNames(A),
              codes |-> StandardCodes(A)] :
              f \in NodeTables(A), m \in MergedTables({MaxTaxid + 1}, A)} :
           A \in ActiveSets}

\* the name classes of the model, two of the classes of NAME_CLASSES
NAME_CLASSES == {"scientific name", "common name"}

\* Dumps that vary the names: the chain of nodes, every node with its
\* scientific name, and after those rows at most two more rows that give a
\* node one of three names, alike but for the case of a letter, in either
\* name class.  The taxid MaxTaxid + 1 was merged into MaxTaxid.
ExtraNames == {<<"a", "a">>, <<"A", "a">>, <<"a", "A">>}
ExtraRows == {NameRow(n, name, c) : n \in TaxIds, name \in ExtraNames,
                                     c \in NAME_CLASSES}
NameTables ==
    {<<>>} \cup {<<r>> : r \in ExtraRows}
           \cup {<<r1, r2>> : r1 \in ExtraRows, r2 \in ExtraRows}

NameDumps ==
    {[gen |-> 1, nodes |-> ReleaseNodes(1),
      merged |-> [o \in {MaxTaxid + 1} |-> MaxTaxid], deleted |-> {},
      ranks |-> NoRanks(TaxIds), names |-> ScientificNames(TaxIds) \o extra,
      codes |-> StandardCodes(TaxIds)] :
     extra \in NameTables}

\* Dumps that vary the ranks: the chain of nodes, each with one of two
\* ranks; the nodes of a set S have a common name besides the scientific one.
Ranks == {"no rank", "genus"}
CommonName(n) == <<"a", ToString(n)>>
CommonNames(S) ==
    [i \in 1..Cardinality(S) |->
        NameRow(SortedSeq(S)[i], CommonName(SortedSeq(S)[i]), "common name")]

RankDumps ==
    {[gen |-> 1, nodes |-> ReleaseNodes(1),
      merged |-> [o \in {MaxTaxid + 1} |-> MaxTaxid], deleted |-> {},
      ranks |-> r, names |-> ScientificNames(TaxIds) \o CommonNames(S),
      codes |-> StandardCodes(TaxIds)] :
     r \in [TaxIds -> Ranks], S \in SUBSET TaxIds}

\* the taxa known to contain plastids
TAXIDS_WITH_PLASTIDS ==
    {2763, 3027, 5752, 33090, 33682, 38254, 136087, 554296, 554915, 556282,
     1401294, 2489521, 2598132, 2608109, 2608240, 2611341, 2611352, 2683617,
     2686027, 2698737}

\* the list of TaxonomyRAM.contains_plastid
taxids_with_plastids ==
    <<33090, 554915, 2686027, 554296, 1401294, 2608240, 3027, 2611352, 33682,
      38254, 2608109, 2489521, 5752, 556282, 136087, 2611341, 2598132, 2763,
      2698737, 2683617>>

\* Balanophoraceae
taxid_bala == 25673

\* the plastid-bearing taxa and Balanophoraceae, which every dump of the
\* genetic code queries has as nodes, as the taxonomy of NCBI does
PlastidIds == TAXIDS_WITH_PLASTIDS \cup {taxid_bala}

\* Dumps that vary where the nodes of TaxIds and Balanophoraceae hang: the
\* plastid-bearing taxa are children of the root, Balanophoraceae is a child
\* of the root or of a plastid-bearing taxon, every other node a child of the
\* root, of Balanophoraceae or of a plastid-bearing taxon.  The taxid
\* MaxTaxid + 1 was merged into MaxTaxid.
PlastidParents == {root_taxid, taxid_bala, Min(TAXIDS_WITH_PLASTIDS)}
PlastidTrees ==
    {[n \in TaxIds \cup PlastidIds |->
         IF n = taxid_bala THEN pb
         ELSE IF n \in TaxIds \ {root_taxid} THEN f[n]
         ELSE root_taxid] :
     pb \in {root_taxid, Min(TAXIDS_WITH_PLASTIDS)},
     f \in [TaxIds \ {root_taxid} -> PlastidParents]}

PlastidDumps ==
    {[gen |-> 1, nodes |-> cp,
      merged |-> [o \in {MaxTaxid + 1} |-> MaxTaxid], deleted |-> {},
      ranks |-> NoRanks(DOMAIN cp), names |-> ScientificNames(DOMAIN cp),
      codes |-> StandardCodes(DOMAIN cp)] :
     cp \in PlastidTrees}

\* Dumps that vary the row of genetic code 1 in gencode.dmp: every mark at
\* every codon.  The nodes are the chain, and the taxid MaxTaxid + 1 was
\* merged into MaxTaxid.
CodeDumps ==
    {[gen |-> 1, nodes |-> ReleaseNodes(1),
      merged |-> [o \in {MaxTaxid + 1} |-> MaxTaxid], deleted |-> {},
      ranks |-> NoRanks(TaxIds), names |-> ScientificNames(TaxIds),
      codes |-> [StandardCodes(TaxIds) EXCEPT
                    !.tt = [g \in GenCodeIds |-> IF g = 1 THEN tt ELSE StandardTT],
                    !.sc = [g \in GenCodeIds |-> IF g = 1 THEN sc ELSE StandardSC]]] :
     tt \in [1..NumCodons -> AminoMarks], sc \in [1..NumCodons -> StartMarks]}

\* the table dump.nodes is a rooted tree: every node reaches the root
RECURSIVE ReachesRoot(_, _, _)
ReachesRoot(cp, n, fuel) ==
    IF n = root_taxid THEN TRUE
    ELSE IF fuel = 0 \/ n \notin DOMAIN cp THEN FALSE
    ELSE ReachesRoot(cp, cp[n], fuel - 1)

WellFormed(cp) == \A n \in DOMAIN cp : ReachesRoot(cp, n, Cardinality(DOMAIN cp))

(***************************************************************************)
(* parse_nodes_dump: the parent -> children table is derived from the      *)
(* child -> parent table; the children of a parent keep the order of the   *)
(* rows of nodes.dmp, which lists the taxids in ascending order.  The root *)
(* row 1 -> 1 makes the root one of its own children.                      *)
(***************************************************************************)
\* a children table that keeps only the rows of nodes.dmp read before p's own
ChildrenOf_before(cp, p) == {c \in DOMAIN cp : cp[c] = p /\ c < p}

ChildrenOf(cp, p) == {c \in DOMAIN cp : cp[c] = p}

parse_nodes_dump(cp) ==
    [p \in {cp[c] : c \in DOMAIN cp} |-> SortedSeq(ChildrenOf(cp, p))]

(***************************************************************************)
(* _check_initialized: the decorator on every query of both backends.      *)
(* It prints 'Run the init() method first.' and returns None.              *)
(***************************************************************************)
\* a decorator that lets the call through
check_initialized_off(out) == out

check_initialized(out) ==
    IF taxonomy_initialized = FALSE THEN RetNone ELSE out

(***************************************************************************)
(* TaxonomyRAM: operations on taxids.                                      *)
(***************************************************************************)
RAM_NotValid == "Exception: TaxID is not valid."
RAM_NotInDB == "Exception: TaxID is not in the database."

RAM_taxid_in_db(taxid) ==
    \/ taxid \in DOMAIN taxids_child_parent_dict
    \/ taxid \in DOMAIN taxids_merged_dict
    \/ taxid \in taxids_deleted_set

RAM_taxid_valid(taxid) ==
    \/ taxid \in DOMAIN taxids_child_parent_dict
    \/ taxid \in DOMAIN taxids_merged_dict

RAM_taxid_valid_raise(taxid) ==
    IF ~RAM_taxid_valid(taxid) THEN Raise(RAM_NotValid) ELSE RetNone

RAM_taxid_in_db_raise(taxid) ==
    IF ~RAM_taxid_in_db(taxid) THEN Raise(RAM_NotInDB) ELSE RetNone

RAM_taxid_deleted(taxid) ==
    IF ~RAM_taxid_in_db(taxid) THEN Raise(RAM_NotInDB)
    ELSE RetBool(taxid \in taxids_deleted_set)

\* False, or the taxid it was merged into
RAM_taxid_merged(taxid) ==
    IF ~RAM_taxid_valid(taxid) THEN Raise(RAM_NotValid)
    ELSE IF taxid \in DOMAIN taxids_merged_dict
         THEN RetInt(taxids_merged_dict[taxid])
         ELSE RetBool(FALSE)

RAM_updated_taxid(taxid) ==
    IF ~RAM_taxid_valid(taxid) THEN Raise(RAM_NotValid)
    ELSE LET taxid_deleted == RAM_taxid_deleted(taxid)
             taxid_merged == RAM_taxid_merged(taxid)
         IN  IF taxid_deleted = RetBool(FALSE)
             THEN IF taxid_merged # RetBool(FALSE)
                  THEN taxid_merged
                  ELSE RetInt(taxid)
             ELSE RetNone

RAM_parent_taxid(taxid) ==
    IF ~RAM_taxid_valid(taxid) THEN Raise(RAM_NotValid)
    ELSE LET u == RAM_updated_taxid(taxid)
         IN  IF u.k = "int" /\ u.v \in DOMAIN taxids_child_parent_dict
             THEN RetInt(taxids_child_parent_dict[u.v])
             ELSE RetNone

\* the stored list of children, or None for a taxid that is nobody's parent
RAM_children_taxids(taxid) ==
    IF ~RAM_taxid_valid(taxid) THEN Raise(RAM_NotValid)
    ELSE LET u == RAM_updated_taxid(taxid)
         IN  IF u.k = "int" /\ u.v \in DOMAIN taxids_parent_children_dict
             THEN RetSeq(taxids_parent_children_dict[u.v])
             ELSE RetNone

\* recurse_lineage of lineage_for_taxid; depth counts the frames in use
RECURSIVE RAM_recurse_lineage(_, _, _)
RAM_recurse_lineage(taxid, lineage, depth) ==
    IF depth > RecursionLimit THEN Raise("RecursionError")
    ELSE IF taxid # root_taxid
         THEN LET p == RAM_parent_taxid(taxid)
              IN  IF p.k = "raise" THEN p
                  \* parent None: the next frame asks for the parent of None
                  ELSE IF p.k = "none" THEN Raise(RAM_NotValid)
                  ELSE RAM_recurse_lineage(p.v, Append(lineage, taxid), depth + 1)
         ELSE RetSeq(Append(lineage, taxid))

\* the 'taxids' entry of the dictionary lineage_for_taxid returns
RAM_lineage_for_taxid(taxid) ==
    IF ~RAM_taxid_valid(taxid) THEN Raise(RAM_NotValid)
    ELSE LET new_taxid == RAM_updated_taxid(taxid)
             taxids == IF new_taxid.k = "int"
                       THEN RAM_recurse_lineage(new_taxid.v, <<>>, 1)
                       ELSE RetSeq(<<>>)
         IN  IF taxids.k = "raise" THEN taxids ELSE RetSeq(Reverse(taxids.s))

RECURSIVE RAM_all_descending_taxids_rec(_, _)
RECURSIVE RAM_rabbit_hole(_, _, _, _)
\* the for loop of all_descending_taxids over the children chld, from index i
RAM_rabbit_hole(chld, i, return_taxids, depth) ==
    IF i > Len(chld) THEN RetSeq(return_taxids)
    ELSE LET rabbit_hole == RAM_all_descending_taxids_rec(chld[i], depth + 1)
         IN  IF rabbit_hole.k = "raise" THEN rabbit_hole
             ELSE RAM_rabbit_hole(chld, i + 1,
                     IF rabbit_hole.k = "seq"
                     THEN return_taxids \o rabbit_hole.s ELSE return_taxids,
                     depth)

RAM_all_descending_taxids_rec(taxid, depth) ==
    IF depth > RecursionLimit THEN Raise("RecursionError")
    ELSE IF ~RAM_taxid_valid(taxid) THEN Raise(RAM_NotValid)
    ELSE LET return_taxids == RAM_children_taxids(taxid)
         IN  IF return_taxids.k # "seq" THEN return_taxids
             ELSE RAM_rabbit_hole(return_taxids.s, 1, return_taxids.s, depth)

RAM_all_descending_taxids(taxid) == RAM_all_descending_taxids_rec(taxid, 1)

\* the lists of children in the store after all_descending_taxids(taxid):
\* return_taxids is the stored list of children_taxids, and
\* return_taxids = return_taxids + rabbit_hole binds the name to a new list
RAM_stored_children(taxid) == taxids_parent_children_dict

\* the members of S whose lineage, of length len[x], is longest: the loop of
\* shared_taxid_for_taxids / common_node keeps the first such member in the
\* iteration order of a set, which the language does not fix
\* a loop that keeps the member with the shortest lineage
Longest_shortest(S, len) == {x \in S : \A y \in S : len[x] <= len[y]}

\* a loop that keeps whichever member it meets first
Longest_first_met(S, len) == S

Longest(S, len) == {x \in S : \A y \in S : len[y] <= len[x]}

RAM_lineage_seq(taxid) == RAM_lineage_for_taxid(taxid).s

\* the outcomes shared_taxid_for_taxids can have, one per iteration order
RAM_shared_taxid_for_taxids(taxids) ==
    IF Len(taxids) = 0 THEN {RetNone}
    ELSE LET lins == [i \in 1..Len(taxids) |-> RAM_lineage_for_taxid(taxids[i])]
             bad == {i \in 1..Len(taxids) : lins[i].k = "raise"}
             shared == {x \in ToSet(lins[1].s) :
                          \A i \in 1..Len(taxids) : x \in ToSet(lins[i].s)}
         IN  IF bad # {} THEN {lins[Min(bad)]}
             ELSE IF \E x \in shared : RAM_lineage_for_taxid(x).k = "raise"
             THEN {RAM_lineage_for_taxid(x) :
                     x \in {y \in shared : RAM_lineage_for_taxid(y).k = "raise"}}
             \* no lineage is longer than the empty tuple: shared_lineage[-1]
             ELSE IF \A x \in shared : Len(RAM_lineage_seq(x)) = 0
             THEN {Raise("IndexError")}
             \* the last taxid of the longest lineage kept
             ELSE {RetInt(RAM_lineage_seq(x)[Len(RAM_lineage_seq(x))]) :
                     x \in Longest(shared, [y \in shared |-> Len(RAM_lineage_seq(y))])}

(***************************************************************************)
(* TaxonomySQL: operations on taxids and on Node objects.  A Node is       *)
(* [tax_id, parent_tax_id, stamp]; stamp is the number of reloads the      *)
(* store had completed when the object was fetched.  The operations that look   *)
(* nodes up take the cache _taxid_node_dict and give it back: R(out, c).   *)
(***************************************************************************)
R(out, cache) == [out |-> out, cache |-> cache]

Node(txid) == [tax_id |-> txid,
               parent_tax_id |-> taxids_child_parent_dict[txid],
               stamp |-> reloads]

SQL_taxid_deleted(taxid) == taxid \in taxids_deleted_set
SQL_taxid_merged(taxid) == taxid \in DOMAIN taxids_merged_dict
SQL_taxid_active(taxid) == taxid \in DOMAIN taxids_child_parent_dict

\* a resolution that looks at the deleted set before the merged mapping
SQL_updated_taxid_deleted_first(taxid) ==
    IF SQL_taxid_active(taxid) THEN taxid
    ELSE IF SQL_taxid_deleted(taxid) THEN -1
    ELSE IF SQL_taxid_merged(taxid) THEN taxids_merged_dict[taxid]
    ELSE -2

SQL_updated_taxid(taxid) ==
    IF SQL_taxid_active(taxid) THEN taxid
    ELSE IF SQL_taxid_merged(taxid) THEN taxids_merged_dict[taxid]
    ELSE IF SQL_taxid_deleted(taxid) THEN -1
    ELSE -2

taxid_in_db(taxid) == SQL_updated_taxid(taxid) >= -1

\* a validity test that takes the -1 of a deleted taxid for a taxid
taxid_valid_deleted(taxid) == SQL_updated_taxid(taxid) >= -1

taxid_valid(taxid) == SQL_updated_taxid(taxid) >= 0

taxid_in_db_raise(taxid) ==
    IF ~taxid_in_db(taxid) THEN Raise("TaxIdNotInDBError") ELSE RetNone

taxid_valid_raise(taxid) ==
    IF ~taxid_valid(taxid) THEN Raise("TaxIdInvalidError") ELSE RetNone

\* a cache that holds no more than the Node fetched last
SQL_node_for_taxid_last_only(taxid, cache) ==
    IF taxid \in DOMAIN cache THEN R(RetNode(cache[taxid]), cache)
    ELSE IF ~taxid_valid(taxid) THEN R(Raise("TaxIdInvalidError"), cache)
    ELSE LET txid == SQL_updated_taxid(taxid)
         IN  IF ~SQL_taxid_active(txid) THEN R(Raise("AssertionError"), cache)
             ELSE R(RetNode(Node(txid)), (taxid :> Node(txid)))

SQL_node_for_taxid(taxid, cache) ==
    IF taxid \in DOMAIN cache THEN R(RetNode(cache[taxid]), cache)
    ELSE IF ~taxid_valid(taxid) THEN R(Raise("TaxIdInvalidError"), cache)
    ELSE LET txid == SQL_updated_taxid(taxid)
         IN  IF ~SQL_taxid_active(txid) THEN R(Raise("AssertionError"), cache)
             ELSE R(RetNode(Node(txid)), (taxid :> Node(txid)) @@ cache)

\* the Node object behind an outcome of node_for_taxid
NodeOf(r, taxid) == r.cache[taxid]

\* a recurse_lineage that files the parent under the taxid of the child
RECURSIVE SQL_recurse_lineage_child_key(_, _, _, _)
SQL_recurse_lineage_child_key(n, lineage, cache, depth) ==
    IF depth > RecursionLimit THEN R(Raise("RecursionError"), cache)
    ELSE IF n.tax_id # root_taxid
         THEN LET parent_taxid == n.parent_tax_id
              IN  IF parent_taxid \in DOMAIN cache
                  THEN SQL_recurse_lineage_child_key(cache[parent_taxid],
                                           Append(lineage, n), cache, depth + 1)
                  ELSE IF ~SQL_taxid_active(parent_taxid)
                       THEN R(Raise("AttributeError"), cache)
                       ELSE SQL_recurse_lineage_child_key(Node(parent_taxid),
                               Append(lineage, n),
                               (n.tax_id :> Node(parent_taxid)) @@ cache,
                               depth + 1)
         ELSE R(RetNodes(Append(lineage, n)), cache)

\* recurse_lineage of lineage_of_nodes; n is a Node, lineage a list of Nodes
RECURSIVE SQL_recurse_lineage(_, _, _, _)
SQL_recurse_lineage(n, lineage, cache, depth) ==
    IF depth > RecursionLimit THEN R(Raise("RecursionError"), cache)
    ELSE IF n.tax_id # root_taxid
         THEN LET parent_taxid == n.parent_tax_id
              IN  IF parent_taxid \in DOMAIN cache
                  THEN SQL_recurse_lineage(cache[parent_taxid],
                                           Append(lineage, n), cache, depth + 1)
                  ELSE IF ~SQL_taxid_active(parent_taxid)
                       \* n.parent is None
                       THEN R(Raise("AttributeError"), cache)
                       ELSE SQL_recurse_lineage(Node(parent_taxid),
                               Append(lineage, n),
                               (parent_taxid :> Node(parent_taxid)) @@ cache,
                               depth + 1)
         ELSE R(RetNodes(Append(lineage, n)), cache)

\* lineage_of_nodes, as the list of Nodes from the root to node
SQL_lineage_nodes(node, cache) ==
    LET r == SQL_recurse_lineage(node, <<>>, cache, 1)
    IN  IF r.out.k = "raise" THEN r
        ELSE R([r.out EXCEPT !.s = Reverse(r.out.s)], r.cache)

\* lineage_of_nodes called on the Node of taxid
SQL_lineage_of_nodes(taxid, cache) ==
    LET nd == SQL_node_for_taxid(taxid, cache)
    IN  IF nd.out.k = "raise" THEN nd
        ELSE SQL_lineage_nodes(NodeOf(nd, taxid), nd.cache)

SQL_lineage_of_taxids(taxid, cache) ==
    LET ln == SQL_lineage_of_nodes(taxid, cache)
    IN  IF ln.out.k = "raise" THEN ln ELSE R(RetSeq(ln.out.s), ln.cache)

SQL_parent_taxid(taxid, cache) ==
    LET nd == SQL_node_for_taxid(taxid, cache)
    IN  IF nd.out.k = "raise" THEN nd
        ELSE R(RetInt(NodeOf(nd, taxid).parent_tax_id), nd.cache)

SQL_children_taxids(taxid, cache) ==
    LET txid == SQL_updated_taxid(taxid)
        nd == SQL_node_for_taxid(txid, cache)
    IN  IF nd.out.k = "raise" THEN nd
        ELSE R(RetSet(ChildrenOf(taxids_child_parent_dict, nd.out.v)), nd.cache)

\* Taxonomy.all_descending_taxids over TaxonomySQL.children_taxids; the loop
\* runs over a copy of the set of children, here in ascending order
RECURSIVE SQL_all_descending_taxids_rec(_, _, _)
RECURSIVE SQL_rabbit_hole(_, _, _, _)
SQL_rabbit_hole(todo, return_taxids, cache, depth) ==
    IF todo = <<>> THEN R(RetSet(return_taxids), cache)
    ELSE LET rabbit_hole == SQL_all_descending_taxids_rec(Head(todo), cache, depth + 1)
         IN  IF rabbit_hole.out.k = "raise" THEN rabbit_hole
             ELSE SQL_rabbit_hole(Tail(todo), return_taxids \cup rabbit_hole.out.st,
                                  rabbit_hole.cache, depth)

SQL_all_descending_taxids_rec(taxid, cache, depth) ==
    IF depth > RecursionLimit THEN R(Raise("RecursionError"), cache)
    ELSE IF ~taxid_valid(taxid) THEN R(Raise("TaxIdInvalidError"), cache)
    ELSE LET return_taxids == SQL_children_taxids(taxid, cache)
         IN  IF return_taxids.out.k = "raise" THEN return_taxids
             ELSE SQL_rabbit_hole(SortedSeq(return_taxids.out.st),
                                  return_taxids.out.st, return_taxids.cache, depth)

SQL_all_descending_taxids(taxid, cache) ==
    SQL_all_descending_taxids_rec(taxid, cache, 1)

\* nodes_for_taxids: node_for_taxid on each taxid in turn
RECURSIVE SQL_nodes_for_taxids(_, _, _)
SQL_nodes_for_taxids(taxids, i, cache) ==
    IF i > Len(taxids) THEN R(RetNone, cache)
    ELSE LET nd == SQL_node_for_taxid(taxids[i], cache)
         IN  IF nd.out.k = "raise" THEN nd
             ELSE SQL_nodes_for_taxids(taxids, i + 1, nd.cache)

\* loops that join the lineages instead of intersecting them
RECURSIVE SQL_shared_union(_, _, _, _)
SQL_shared_union(nodes, i, shared, cache) ==
    IF i > Len(nodes) THEN R(RetSet(shared), cache)
    ELSE LET lineage == SQL_lineage_nodes(nodes[i], cache)
         IN  IF lineage.out.k = "raise" THEN lineage
             ELSE SQL_shared_union(nodes, i + 1, shared \cup ToSet(lineage.out.s),
                                   lineage.cache)

\* the first two loops of common_node: the Nodes common to all the lineages
RECURSIVE SQL_shared(_, _, _, _)
SQL_shared(nodes, i, shared, cache) ==
    IF i > Len(nodes) THEN R(RetSet(shared), cache)
    ELSE LET lineage == SQL_lineage_nodes(nodes[i], cache)
         IN  IF lineage.out.k = "raise" THEN lineage
             ELSE SQL_shared(nodes, i + 1,
                     IF i = 1 THEN ToSet(lineage.out.s)
                     ELSE shared \cap ToSet(lineage.out.s),
                     lineage.cache)

\* the outcomes common_taxid can have, one per iteration order of `shared`
SQL_common_taxid(taxids, cache) ==
    LET nds == SQL_nodes_for_taxids(taxids, 1, cache)
    IN  IF nds.out.k = "raise" THEN {nds}
        ELSE LET nodes == [i \in 1..Len(taxids) |-> nds.cache[taxids[i]]]
                 sh == SQL_shared(nodes, 1, {}, nds.cache)
                 len == [x \in sh.out.st |->
                           Len(SQL_lineage_nodes(Node(x), sh.cache).out.s)]
             IN  IF sh.out.k = "raise" THEN {sh}
                 ELSE IF sh.out.st = {} THEN {R(Raise("IndexError"), sh.cache)}
                 ELSE {R(RetInt(x), sh.cache) : x \in Longest(sh.out.st, len)}

\* Taxonomy.all_descending_taxids_for_taxids
SQL_all_descending_taxids_for_taxids(taxids, cache) ==
    {IF lca.out.k = "raise" THEN lca
     ELSE LET d == SQL_all_descending_taxids(lca.out.v, lca.cache)
          IN  IF d.out.k = "raise" THEN d
              ELSE R(RetSet(d.out.st \cup {lca.out.v}), d.cache) :
     lca \in SQL_common_taxid(taxids, cache)}

\* TaxonomyRAM.all_descending_taxids_for_taxids
RAM_all_descending_taxids_for_taxids(taxids) ==
    {IF shared.k # "int" THEN shared
     ELSE LET d == RAM_all_descending_taxids(shared.v)
          IN  IF d.k = "raise" THEN d
              ELSE IF d.k = "none" THEN RetSeq(<<shared.v>>)
              ELSE d :
     shared \in RAM_shared_taxid_for_taxids(taxids)}

(***************************************************************************)
(* path_between_lineages and the paths of the two backends.                *)
(***************************************************************************)
\* takewhile(eq, zip(ln1, ln2)): the number of leading positions, within
\* the shorter lineage, at which the two lineages agree
shared_prefix_len(ln1, ln2) ==
    Max({k \in 0..Min({Len(ln1), Len(ln2)}) : \A i \in 1..k : ln1[i] = ln2[i]})

\* zip_longest(ln1, ln2, fillvalue=-1)
zip_longest(ln1, ln2) ==
    [i \in 1..Max({Len(ln1), Len(ln2)}) |->
        <<IF i <= Len(ln1) THEN ln1[i] ELSE -1,
          IF i <= Len(ln2) THEN ln2[i] ELSE -1>>]

\* dropwhile(eq, pairs): the pairs from the first unequal one on
RECURSIVE dropwhile_eq(_)
dropwhile_eq(pairs) ==
    IF pairs = <<>> THEN <<>>
    ELSE IF Head(pairs)[1] = Head(pairs)[2] THEN dropwhile_eq(Tail(pairs))
    ELSE pairs

\* filter(partial(ne, -1), t)
filter_fill(t) == SelectSeq(t, LAMBDA x : x # -1)

\* a path whose first branch is left in root-to-leaf order
path_between_lineages_unreversed(ln1, ln2) ==
    LET shared == SubSeq(ln1, 1, shared_prefix_len(ln1, ln2))
        diff == dropwhile_eq(zip_longest(ln1, ln2))
    IN  IF diff = <<>> \/ shared = <<>> THEN Raise("IndexError")
        ELSE RetSeq(filter_fill([i \in 1..Len(diff) |-> diff[i][1]]
                                \o <<shared[Len(shared)]>>
                                \o [i \in 1..Len(diff) |-> diff[i][2]]))

\* zip(*diff) is empty when the lineages are equal, and the shared prefix
\* is empty when they differ at the first position: both subscripts fail
path_between_lineages(ln1, ln2) ==
    LET shared == SubSeq(ln1, 1, shared_prefix_len(ln1, ln2))
        diff == dropwhile_eq(zip_longest(ln1, ln2))
        unzipped == IF diff = <<>> THEN <<>>
                 ELSE <<[i \in 1..Len(diff) |-> diff[i][1]],
                        [i \in 1..Len(diff) |-> diff[i][2]]>>
    IN  IF unzipped = <<>> THEN Raise("IndexError")
        ELSE IF shared = <<>> THEN Raise("IndexError")
        ELSE RetSeq(filter_fill(Reverse(unzipped[1]) \o <<shared[Len(shared)]>>
                                \o unzipped[2]))

\* the same steps, written out in TaxonomyRAM.path_between_taxids
RAM_path_between_taxids(taxid1, taxid2) ==
    IF ~RAM_taxid_valid(taxid1) THEN Raise(RAM_NotValid)
    ELSE IF ~RAM_taxid_valid(taxid2) THEN Raise(RAM_NotValid)
    ELSE IF taxid1 = taxid2 THEN RetSeq(<<taxid1>>)
    ELSE LET taxids1 == RAM_lineage_for_taxid(taxid1)
             taxids2 == RAM_lineage_for_taxid(taxid2)
         IN  IF taxids1.k = "raise" THEN taxids1
             ELSE IF taxids2.k = "raise" THEN taxids2
             ELSE path_between_lineages(taxids1.s, taxids2.s)

\* path_between_nodes, as the tax_ids of the Nodes of the path
SQL_path_between_nodes(node1, node2, cache) ==
    IF node1 = node2 THEN R(RetSeq(<<node1.tax_id>>), cache)
    ELSE LET ln1 == SQL_lineage_nodes(node1, cache)
         IN  IF ln1.out.k = "raise" THEN ln1
             ELSE LET ln2 == SQL_lineage_nodes(node2, ln1.cache)
                  IN  IF ln2.out.k = "raise" THEN ln2
                      ELSE R(path_between_lineages(ln1.out.s, ln2.out.s),
                             ln2.cache)

SQL_path_between_taxids(taxid1, taxid2, cache) ==
    IF ~taxid_valid(taxid1) THEN R(Raise("TaxIdInvalidError"), cache)
    ELSE IF ~taxid_valid(taxid2) THEN R(Raise("TaxIdInvalidError"), cache)
    ELSE LET nd1 == SQL_node_for_taxid(taxid1, cache)
         IN  IF nd1.out.k = "raise" THEN nd1
             ELSE LET nd2 == SQL_node_for_taxid(taxid2, nd1.cache)
                  IN  IF nd2.out.k = "raise" THEN nd2
                      ELSE SQL_path_between_nodes(NodeOf(nd1, taxid1),
                                                  NodeOf(nd2, taxid2), nd2.cache)

(***************************************************************************)
(* Names and ranks.  A name is a sequence of characters; the characters    *)
(* of the model are a letter in its two cases, the space and the digits.   *)
(***************************************************************************)
\* str.upper and str.lower on one character
upper(c) == IF c = "a" THEN "A" ELSE c
lower(c) == IF c = "A" THEN "a" ELSE c

\* name_variations(name), of a name that is not empty
name_variations(name) ==
    {name, <<upper(name[1])>> \o Tail(name), <<lower(name[1])>> \o Tail(name)}

\* str.strip
RECURSIVE lstrip(_)
lstrip(name) ==
    IF name # <<>> /\ Head(name) = " " THEN lstrip(Tail(name)) ELSE name
strip(name) == Reverse(lstrip(Reverse(lstrip(name))))

\* _taxids_names_dict[taxid] and _names_taxids_dict[name] of parse_names_dump,
\* node.names of TaxonomySQL: the rows of a taxid, of a name, in dump order;
\* the key is in the dictionary when there is a row
taxids_names_dict(taxid) == SelectSeq(tx_names, LAMBDA r : r.tax_id = taxid)
names_taxids_dict(name) == SelectSeq(tx_names, LAMBDA r : r.name = name)

RetName(name) == [NoOut EXCEPT !.k = "name", !.s = name]
RetNames(names) == [NoOut EXCEPT !.k = "names", !.s = names]
RetDict(d) == [NoOut EXCEPT !.k = "dict", !.d = d]

\* TaxonomyRAM.taxids_for_name: the 'tax_ids' of the dictionary it returns,
\* as the list of their tax_id; None when no variant is a key
RAM_taxids_for_name(name) ==
    IF Len(name) = 0 THEN RetNone
    ELSE LET names == <<name, <<upper(name[1])>> \o Tail(name),
                              <<lower(name[1])>> \o Tail(name)>>
             found == {i \in 1..3 : names_taxids_dict(names[i]) # <<>>}
         IN  IF found = {} THEN RetNone
             ELSE LET rows == names_taxids_dict(names[Min(found)])
                  IN  RetSeq([i \in 1..Len(rows) |-> rows[i].tax_id])

\* TaxonomySQL.taxids_for_name: one SELECT ... WHERE name IN (variants)
SQL_taxids_for_name(name) ==
    LET stripped == strip(name)
    IN  IF Len(stripped) # 0
        THEN RetSeq(SortedSeq({tx_names[i].tax_id :
                        i \in {j \in 1..Len(tx_names) :
                                 tx_names[j].name \in name_variations(stripped)}}))
        ELSE RetSeq(<<>>)

\* the keys of {x.name: x.name_class for x in names}, in insertion order
RECURSIVE dict_keys(_, _)
dict_keys(rows, seen) ==
    IF rows = <<>> THEN <<>>
    ELSE IF Head(rows).name \in seen THEN dict_keys(Tail(rows), seen)
    ELSE <<Head(rows).name>> \o dict_keys(Tail(rows), seen \cup {Head(rows).name})

\* the value the dictionary holds for a key: that of the last row with it
dict_value(rows, name) ==
    rows[Max({i \in 1..Len(rows) : rows[i].name = name})].name_class

\* invert_dict(d, tuple, True) for a dictionary with the keys `keys`, in
\* insertion order, and string values: value -> tuple of its keys
invert_dict(keys, value) ==
    [v \in {value[k] : k \in ToSet(keys)} |->
        SelectSeq(keys, LAMBDA k : value[k] = v)]

\* names_for_node of the Node with tax_id
names_for_node(tax_id) ==
    LET rows == taxids_names_dict(tax_id)
        keys == dict_keys(rows, {})
    IN  invert_dict(keys, [k \in ToSet(keys) |-> dict_value(rows, k)])

SQL_names_for_taxid(taxid, cache) ==
    LET names_of(nd) ==
            IF nd.out.k = "raise" THEN nd
            ELSE R(RetDict(names_for_node(NodeOf(nd, taxid).tax_id)), nd.cache)
    IN  names_of(SQL_node_for_taxid(taxid, cache))

\* Taxonomy.names_of_class_for_taxid
names_of_class_for_taxid(taxid, name_class, cache) ==
    LET of_class(all_names_dict) ==
            IF all_names_dict.out.k = "raise" THEN all_names_dict
            ELSE IF name_class \notin DOMAIN all_names_dict.out.d
                 THEN R(RetNames(<<>>), all_names_dict.cache)
                 ELSE R(RetNames(all_names_dict.out.d[name_class]),
                        all_names_dict.cache)
    IN  IF ~taxid_valid(taxid) THEN R(Raise("TaxIdInvalidError"), cache)
        ELSE IF name_class \notin NAME_CLASSES
             THEN R(Raise("NameClassInvalidError"), cache)
        ELSE of_class(SQL_names_for_taxid(taxid, cache))

\* Taxonomy.name_for_taxid; the empty name is ''
name_for_taxid(taxid, name_class, cache) ==
    LET first(names) ==
            IF names.out.k = "raise" THEN names
            ELSE IF Len(names.out.s) > 0
                 THEN R(RetName(names.out.s[1]), names.cache)
                 ELSE R(RetName(<<>>), names.cache)
    IN  IF ~taxid_valid(taxid) THEN R(Raise("TaxIdInvalidError"), cache)
        ELSE first(names_of_class_for_taxid(taxid, name_class, cache))

\* lineage_of_names: name_for_taxid on each taxid of the lineage in turn
RECURSIVE SQL_names_along(_, _, _, _, _)
SQL_names_along(ln_taxid, i, name_class, ln_name, cache) ==
    LET append(nm) ==
            IF nm.out.k = "raise" THEN nm
            ELSE SQL_names_along(ln_taxid, i + 1, name_class,
                                 Append(ln_name, nm.out.s), nm.cache)
    IN  IF i > Len(ln_taxid) THEN R(RetNames(ln_name), cache)
        ELSE append(name_for_taxid(ln_taxid[i], name_class, cache))

SQL_lineage_of_names(taxid, name_class, cache) ==
    LET names_of(ln_taxid) ==
            IF ln_taxid.out.k = "raise" THEN ln_taxid
            ELSE SQL_names_along(ln_taxid.out.s, 1, name_class, <<>>,
                                 ln_taxid.cache)
    IN  names_of(SQL_lineage_of_taxids(taxid, cache))

\* lineage_of_ranks: the rank of each Node of the lineage
SQL_lineage_of_ranks(taxid, cache) ==
    LET ranks_of(ln) ==
            IF ln.out.k = "raise" THEN ln
            ELSE R(RetNames([i \in 1..Len(ln.out.s) |->
                                taxids_rank_dict[ln.out.s[i]]]), ln.cache)
    IN  ranks_of(SQL_lineage_of_nodes(taxid, cache))

\* list.index: the first position of x in the list
index(list, x) == Min({i \in 1..Len(list) : list[i] = x})

SQL_higher_rank_for_taxid(taxid, rank, name_class, cache) ==
    LET at_rank(ln_rank, ln_name) ==
            IF ln_name.out.k = "raise" THEN ln_name
            ELSE R(RetName(ln_name.out.s[index(ln_rank.out.s, rank)]),
                   ln_name.cache)
        with_ranks(ln_rank) ==
            IF ln_rank.out.k = "raise" THEN ln_rank
            ELSE IF rank \notin ToSet(ln_rank.out.s)
                 THEN R(RetName(<<>>), ln_rank.cache)
                 ELSE at_rank(ln_rank,
                              SQL_lineage_of_names(taxid, name_class, ln_rank.cache))
    IN  with_ranks(SQL_lineage_of_ranks(taxid, cache))

\* [grp_taxid in lineage_of_taxids(x) for x in taxids]
RECURSIVE SQL_lcas(_, _, _, _, _)
SQL_lcas(taxids, i, grp_taxid, lcas, cache) ==
    LET append(ln) ==
            IF ln.out.k = "raise" THEN ln
            ELSE SQL_lcas(taxids, i + 1, grp_taxid,
                          Append(lcas, grp_taxid \in ToSet(ln.out.s)), ln.cache)
    IN  IF i > Len(taxids) THEN R(RetNames(lcas), cache)
        ELSE append(SQL_lineage_of_taxids(taxids[i], cache))

\* the number of True in lcas
count_true(lcas) == Cardinality({i \in 1..Len(lcas) : lcas[i]})

\* Taxonomy.taxid_for_name_and_group_taxid
taxid_for_name_and_group_taxid(name, grp_taxid, cache) ==
    LET pick(taxids, lcas, n) ==
            IF lcas.out.k = "raise" THEN lcas
            ELSE IF n = 0 THEN R(RetInt(-2), lcas.cache)
            ELSE IF n > 1 THEN R(RetInt(-2), lcas.cache)
            ELSE R(RetInt(taxids.s[index(lcas.out.s, TRUE)]), lcas.cache)
        in_group(taxids, lcas) ==
            pick(taxids, lcas, IF lcas.out.k = "raise" THEN 0
                               ELSE count_true(lcas.out.s))
        search(grp_name, taxids) ==
            IF grp_name.out.k = "raise" THEN grp_name
            ELSE IF Len(taxids.s) = 0 THEN R(RetInt(-2), grp_name.cache)
            ELSE in_group(taxids,
                          SQL_lcas(taxids.s, 1, grp_taxid, <<>>, grp_name.cache))
    IN  IF ~taxid_valid(grp_taxid) THEN R(Raise("TaxIdInvalidError"), cache)
        ELSE search(name_for_taxid(grp_taxid, "scientific name", cache),
                    SQL_taxids_for_name(name))

\* TaxonomyRAM.names_for_taxid: the 'names' of the dictionary it returns, a
\* list of rows
RAM_names_for_taxid(taxid) ==
    LET rows_of(names) == IF names = <<>> THEN Raise("KeyError") ELSE RetNames(names)
        lookup(new_taxid) ==
            IF new_taxid.k # "int" THEN RetNone
            ELSE rows_of(taxids_names_dict(new_taxid.v))
    IN  IF ~RAM_taxid_valid(taxid) THEN Raise(RAM_NotValid)
        ELSE lookup(RAM_updated_taxid(taxid))

\* TaxonomyRAM.name_class_for_taxid: the 'name' of the dictionary it
\* returns, the list of the names of the class, or None
RAM_name_class_for_taxid(taxid, name_class) ==
    LET names_of(of_class) ==
            IF of_class = <<>> THEN RetNone
            ELSE RetNames([i \in 1..Len(of_class) |-> of_class[i].name])
        select(all_names_dict) ==
            IF all_names_dict.k # "names" THEN all_names_dict
            ELSE names_of(SelectSeq(all_names_dict.s,
                                    LAMBDA n : n.name_class = name_class))
    IN  IF ~RAM_taxid_valid(taxid) THEN Raise(RAM_NotValid)
        ELSE IF name_class \notin NAME_CLASSES THEN Raise("Exception: name class")
        ELSE select(RAM_names_for_taxid(taxid))

RAM_rank_for_taxid(taxid) ==
    LET rank_of(u) ==
            IF u.k = "int" /\ u.v \in DOMAIN taxids_rank_dict
            THEN RetStr(taxids_rank_dict[u.v])
            ELSE RetNone
    IN  IF ~RAM_taxid_valid(taxid) THEN Raise(RAM_NotValid)
        ELSE rank_of(RAM_updated_taxid(taxid))

\* the 'names' entry of lineage_for_taxid(taxid, name_class): the first name
\* of the class of each taxid of the lineage; None[0] is a TypeError
RECURSIVE RAM_lineage_names(_, _, _, _)
RAM_lineage_names(taxids, i, name_class, names) ==
    LET append(n) ==
            IF n.k = "raise" THEN n
            ELSE IF n.k = "none" THEN Raise("TypeError")
            ELSE RAM_lineage_names(taxids, i + 1, name_class, Append(names, n.s[1]))
    IN  IF i > Len(taxids) THEN RetNames(names)
        ELSE append(RAM_name_class_for_taxid(taxids[i], name_class))

\* the 'ranks' entry of lineage_for_taxid; "" stands for the rank None
RAM_lineage_ranks(taxids) ==
    LET rank_of(r) == IF r.k = "str" THEN r.e ELSE ""
    IN  [i \in 1..Len(taxids) |-> rank_of(RAM_rank_for_taxid(taxids[i]))]

RAM_higher_rank_for_taxid(taxid, rank, name_class) ==
    LET at_rank(ranks, names) ==
            IF names.k = "raise" THEN names
            ELSE IF rank \in ToSet(ranks)
                 THEN RetName(names.s[index(ranks, rank)])
                 ELSE RetNone
        of_lineage(taxids) ==
            IF taxids.k = "raise" THEN taxids
            ELSE at_rank(RAM_lineage_ranks(taxids.s),
                         RAM_lineage_names(taxids.s, 1, name_class, <<>>))
    IN  IF ~RAM_taxid_valid(taxid) THEN Raise(RAM_NotValid)
        ELSE of_lineage(RAM_lineage_for_taxid(taxid))

RAM_tax_id_for_name_and_group_tax_id(name, group_tax_id) ==
    LET pick(ids, lins, bad, lcas) ==
            IF bad # {} THEN lins[Min(bad)]
            ELSE IF count_true(lcas) = 1 THEN RetInt(ids.s[index(lcas, TRUE)])
            ELSE RetNone
        in_group(ids, lins) ==
            pick(ids, lins, {i \in 1..Len(ids.s) : lins[i].k = "raise"},
                 [i \in 1..Len(ids.s) |-> group_tax_id \in ToSet(lins[i].s)])
        search(ids) ==
            IF ids.k = "none" THEN RetNone
            ELSE in_group(ids, [i \in 1..Len(ids.s) |->
                                   RAM_lineage_for_taxid(ids.s[i])])
    IN  IF ~RAM_taxid_valid(group_tax_id) THEN Raise(RAM_NotValid)
        ELSE search(RAM_taxids_for_name(name))

(***************************************************************************)
(* Genetic codes.  The ids of genetic codes are modelled as integers, as   *)
(* the taxids are: TaxonomyRAM holds and returns them as the strings of    *)
(* their digits.  Where the code compares a str with an int, or looks an   *)
(* int up in a dictionary keyed by str, the model keeps the type: PyInt(n) *)
(* is the number n and PyStr(n) the string of its digits.                  *)
(***************************************************************************)
PyInt(n) == [t |-> "int", v |-> n]
PyStr(n) == [t |-> "str", v |-> n]

\* str(x) of an int or of a str
str(x) == PyStr(x.v)

\* d[key] of a dictionary keyed by the strings of the numbers of DOMAIN d
HasKey(d, key) == key.t = "str" /\ key.v \in DOMAIN d

\* the rank of a codon in the lexical order of strings (A < C < G < T)
LetterRank(c) == CHOOSE j \in 1..4 : <<"A", "C", "G", "T">>[j] = c
CodonRank(cd) == (16 * LetterRank(cd[1])) + (4 * LetterRank(cd[2])) + LetterRank(cd[3])

\* list.sort() of a list of distinct codons
sort(cs) ==
    LET place(ranks) ==
            [i \in 1..Len(ranks) |->
                CHOOSE c \in ToSet(cs) : CodonRank(c) = ranks[i]]
    IN  place(SortedSeq({CodonRank(c) : c \in ToSet(cs)}))

\* [codons[i] for i, x in enumerate(marks) if x == mark]
codons_marked(marks, mark) ==
    LET pick(idx) == [j \in 1..Len(idx) |-> codons[idx[j]]]
    IN  pick(SortedSeq({i \in 1..Len(marks) : marks[i] = mark}))

\* dict(zip(aa_codons, aas)): the codons whose amino acid is not '*'
coding_tbl(tt) ==
    [c \in {codons[i] : i \in {j \in 1..Len(tt) : tt[j] # "*"}} |->
        tt[CHOOSE i \in 1..Len(tt) : codons[i] = c]]

\* dict(zip(stop_codons, ['*'] * len(stop_codons)))
stop_tbl(stop_codons) == [c \in ToSet(stop_codons) |-> "*"]

\* the dictionary that trans_table_for_genetic_code_id builds from the rows
\* tt and sc of a genetic code: tbl.update(coding_tbl), tbl.update(stop_tbl)
trans_table(tt, sc, sorted) ==
    [trans_table |-> stop_tbl(codons_marked(sc, "*")) @@ coding_tbl(tt),
     start_codons |-> IF sorted THEN sort(codons_marked(sc, "M"))
                      ELSE codons_marked(sc, "M"),
     stop_codons |-> IF sorted THEN sort(codons_marked(sc, "*"))
                     ELSE codons_marked(sc, "*")]

\* Taxonomy.trans_table_for_genetic_code_id, which TaxonomySQL inherits: gcid
\* is looked up as it is given
trans_table_for_genetic_code_id(gcid) ==
    IF ~HasKey(gen_code_id_translation_table_dict, gcid) THEN Raise("KeyError")
    ELSE RetDict(trans_table(gen_code_id_translation_table_dict[gcid.v],
                             gen_code_id_start_codons_dict[gcid.v], TRUE))

\* TaxonomyRAM.trans_table_for_genetic_code_id: gcid = str(gcid) first, and
\* the lists of codons are not sorted
RAM_trans_table_for_genetic_code_id(gcid) ==
    IF ~HasKey(gen_code_id_translation_table_dict, str(gcid)) THEN Raise("KeyError")
    ELSE RetDict(trans_table(gen_code_id_translation_table_dict[gcid.v],
                             gen_code_id_start_codons_dict[gcid.v], FALSE))

\* TaxonomySQL.genetic_code_for_taxid: the attribute of the Node
SQL_genetic_code_for_taxid(taxid, cache) ==
    LET nd == SQL_node_for_taxid(taxid, cache)
    IN  IF nd.out.k = "raise" THEN nd
        ELSE R(RetInt(taxids_genetic_code_id_dict[nd.out.v]), nd.cache)

\* TaxonomyRAM.genetic_code_for_taxid: the dictionary is read with the taxid
\* as it was given
RAM_genetic_code_for_taxid(taxid) ==
    IF ~RAM_taxid_valid(taxid) THEN Raise(RAM_NotValid)
    ELSE IF taxid \notin DOMAIN taxids_genetic_code_id_dict THEN Raise("KeyError")
    ELSE RetInt(taxids_genetic_code_id_dict[taxid])

(***************************************************************************)
(* Plastids.                                                               *)
(***************************************************************************)
\* a loop that asks whether the plastid taxon lies below the taxid
RECURSIVE contains_plastid_loop_below(_, _, _)
contains_plastid_loop_below(todo, taxid, cache) ==
    IF todo = <<>> THEN {R(RetBool(FALSE), cache)}
    ELSE UNION {IF shared_taxid.out.k = "raise" THEN {shared_taxid}
                ELSE IF shared_taxid.out.v = SQL_updated_taxid(taxid)
                THEN {R(RetBool(TRUE), shared_taxid.cache)}
                ELSE contains_plastid_loop_below(Tail(todo), taxid,
                                                 shared_taxid.cache) :
                shared_taxid \in SQL_common_taxid(<<Head(todo), taxid>>, cache)}

\* the loop of Taxonomy.contains_plastid over the taxids todo; the set is
\* gone through in ascending order.  The outcomes are those of common_taxid.
RECURSIVE contains_plastid_loop(_, _, _)
contains_plastid_loop(todo, taxid, cache) ==
    IF todo = <<>> THEN {R(RetBool(FALSE), cache)}
    ELSE UNION {IF shared_taxid.out.k = "raise" THEN {shared_taxid}
                ELSE IF shared_taxid.out.v = Head(todo)
                THEN {R(RetBool(TRUE), shared_taxid.cache)}
                ELSE contains_plastid_loop(Tail(todo), taxid, shared_taxid.cache) :
                shared_taxid \in SQL_common_taxid(<<Head(todo), taxid>>, cache)}

contains_plastid(taxid, cache) ==
    IF ~taxid_valid(taxid) THEN {R(Raise("TaxIdInvalidError"), cache)}
    ELSE contains_plastid_loop(SortedSeq(TAXIDS_WITH_PLASTIDS), taxid, cache)

RECURSIVE RAM_contains_plastid_loop(_, _)
RAM_contains_plastid_loop(todo, taxid) ==
    IF todo = <<>> THEN {RetBool(FALSE)}
    ELSE UNION {IF shared_taxid.k = "raise" THEN {shared_taxid}
                ELSE IF shared_taxid = RetInt(Head(todo)) THEN {RetBool(TRUE)}
                ELSE RAM_contains_plastid_loop(Tail(todo), taxid) :
                shared_taxid \in RAM_shared_taxid_for_taxids(<<Head(todo), taxid>>)}

RAM_contains_plastid(taxid) ==
    IF ~RAM_taxid_valid(taxid) THEN {Raise(RAM_NotValid)}
    ELSE RAM_contains_plastid_loop(taxids_with_plastids, taxid)

\* the last lines of Taxonomy.plastid_genetic_code_for_taxid: updated_taxid
\* gives an int, and str(common_taxid(...)) is compared with it
plastid_code(taxid, cache) ==
    {IF shared.out.k = "raise" THEN shared
     ELSE IF str(PyInt(shared.out.v)) = PyInt(SQL_updated_taxid(taxid_bala))
     THEN R(RetInt(32), shared.cache)
     ELSE R(RetInt(11), shared.cache) :
     shared \in SQL_common_taxid(<<SQL_updated_taxid(taxid_bala), taxid>>, cache)}

\* Taxonomy.plastid_genetic_code_for_taxid, which TaxonomySQL inherits
plastid_genetic_code_for_taxid(taxid, cache) ==
    IF ~taxid_valid(taxid) THEN {R(Raise("TaxIdInvalidError"), cache)}
    ELSE UNION {IF cp.out.k = "raise" THEN {cp}
                ELSE IF cp.out.b = FALSE THEN {R(RetInt(0), cp.cache)}
                ELSE plastid_code(taxid, cp.cache) :
                cp \in contains_plastid(taxid, cache)}

\* the last lines of TaxonomyRAM.plastid_genetic_code_for_taxid, with
\* taxid_bala what updated_taxid('25673') gave: a str, or None
RAM_plastid_code(taxid, bala) ==
    IF bala.k = "raise" THEN {bala}
    \* lineage_for_taxid(None) asks whether 'None' is valid
    ELSE IF bala.k = "none" THEN {Raise(RAM_NotValid)}
    ELSE {IF shared.k = "raise" THEN shared
          ELSE IF str(PyInt(shared.v)) = PyStr(bala.v) THEN RetInt(32)
          ELSE RetInt(11) :
          shared \in RAM_shared_taxid_for_taxids(<<bala.v, taxid>>)}

RAM_plastid_genetic_code_for_taxid(taxid) ==
    IF ~RAM_taxid_valid(taxid) THEN {Raise(RAM_NotValid)}
    ELSE UNION {IF cp.k = "raise" THEN {cp}
                ELSE IF cp.b = FALSE THEN {RetInt(0)}
                ELSE RAM_plastid_code(taxid, RAM_updated_taxid(taxid_bala)) :
                cp \in RAM_contains_plastid(taxid)}

(***************************************************************************)
(* The state after construction, and the loaded state of a store.          *)
(***************************************************************************)
NoTab == [codons |-> 0, names |-> 0, deleted |-> 0, merged |-> 0, nodes |-> 0,
          gencode |-> 0]
AllTab(g) == [codons |-> g, names |-> g, deleted |-> g, merged |-> g, nodes |-> g,
              gencode |-> g]

NoCall == [op |-> "", arg |-> 0, args |-> <<>>, out |-> NoOut, initd |-> FALSE,
           tabs |-> NoTab, at |-> 0]

\* a call that ends now: what it was, what it gives, and what the store was
Call(op, arg, args, out) ==
    [op |-> op, arg |-> arg, args |-> args, out |-> out,
     initd |-> taxonomy_initialized, tabs |-> tab, at |-> reloads]

\* the tables populate_db commits, in its order; populate_nodes_table commits
\* twice: the rows with parent_tax_id 1, then the parents
PopulateSteps == <<"divisions", "codons", "genetic_codes", "deleted_nodes",
                   "nodes_insert", "nodes_update", "merged_nodes", "names",
                   "citations", "images">>

\* where a load is: the call that runs it and the step it will take next
Idle == [op |-> "idle", step |-> ""]
At(op, step) == [op |-> op, step |-> step]

\* A process that has only defined the class: nothing on disk, nothing loaded.
Init ==
    /\ backend \in Backends
    /\ remote_gen = 1
    /\ dmp = NoDump
    /\ paths = FALSE
    /\ taxonomy_initialized = FALSE
    /\ tab = NoTab
    /\ taxids_child_parent_dict = EmptyFn
    /\ taxids_parent_children_dict = EmptyFn
    /\ taxids_merged_dict = EmptyFn
    /\ taxids_deleted_set = {}
    /\ taxids_rank_dict = EmptyFn
    /\ tx_names = <<>>
    /\ codons = <<>>
    /\ gen_code_id_translation_table_dict = EmptyFn
    /\ gen_code_id_start_codons_dict = EmptyFn
    /\ taxids_genetic_code_id_dict = EmptyFn
    /\ taxids_mito_genetic_code_id_dict = EmptyFn
    /\ db_commits = 0
    /\ taxid_node_dict = EmptyFn
    /\ reloads = 0
    /\ pc = Idle
    /\ ret = NoCall
    /\ zip_file = 0 /\ md5_file = <<>> /\ attempt = 0

\* A store that init has loaded from the dump d.
Loaded(b, d) ==
    /\ backend = b
    /\ remote_gen = d.gen
    /\ dmp = d
    /\ paths = TRUE
    /\ taxonomy_initialized = TRUE
    /\ tab = AllTab(d.gen)
    /\ taxids_child_parent_dict = d.nodes
    /\ taxids_parent_children_dict =
          IF b = "RAM" THEN parse_nodes_dump(d.nodes) ELSE EmptyFn
    /\ taxids_merged_dict = d.merged
    /\ taxids_deleted_set = d.deleted
    /\ taxids_rank_dict = d.ranks
    /\ tx_names = d.names
    /\ codons = d.codes.codons
    /\ gen_code_id_translation_table_dict = d.codes.tt
    /\ gen_code_id_start_codons_dict = d.codes.sc
    /\ taxids_genetic_code_id_dict = d.codes.gc
    /\ taxids_mito_genetic_code_id_dict = d.codes.mito
    /\ db_commits = IF b = "SQL" THEN Len(PopulateSteps) ELSE 0
    /\ taxid_node_dict =
          IF b = "SQL"
          THEN (root_taxid :> [tax_id |-> root_taxid,
                               parent_tax_id |-> d.nodes[root_taxid],
                               stamp |-> 0])
          ELSE EmptyFn
    /\ reloads = 0
    /\ pc = Idle
    /\ ret = NoCall
    /\ zip_file = 0 /\ md5_file = <<>> /\ attempt = 0

QueryInit == \E b \in Backends, d \in ResolveDumps \cup TreeDumps : Loaded(b, d)

(***************************************************************************)
(* update_ncbi_taxonomy_data: the dump is downloaded when a file of it is  *)
(* missing, or when check_for_updates finds another MD5 at NCBI.           *)
(***************************************************************************)
\* a test for a new release that is made whether or not it was asked for
download_taxdmp_always_checks(check_for_updates) ==
    \/ dmp.gen = 0
    \/ dmp.gen # remote_gen

download_taxdmp(check_for_updates) ==
    \/ dmp.gen = 0
    \/ check_for_updates /\ dmp.gen # remote_gen

update_ncbi_taxonomy_data(check_for_updates) ==
    IF download_taxdmp(check_for_updates) THEN Release(remote_gen) ELSE dmp

(***************************************************************************)
(* Queries.  A query is one call on the class; it may come while a load    *)
(* started by another caller is under way.  It changes the node cache of   *)
(* TaxonomySQL and nothing else.                                           *)
(***************************************************************************)
store == <<backend, dnld, remote_gen, dmp, paths, taxonomy_initialized, tab,
           taxids_child_parent_dict, taxids_merged_dict, taxids_deleted_set,
           taxids_rank_dict, tx_names, codons,
           gen_code_id_translation_table_dict, gen_code_id_start_codons_dict,
           taxids_genetic_code_id_dict, taxids_mito_genetic_code_id_dict,
           db_commits, reloads, pc>>

\* the call op(arg) or op(args) ends with the outcome res = R(out, cache)
\* and leaves the lists of children `children` in the store; ret holds the
\* outcome until the caller has taken it
AnswerLeaving(op, arg, args, res, children) ==
    /\ ret' = Call(op, arg, args, check_initialized(res.out))
    /\ taxid_node_dict' = IF taxonomy_initialized = FALSE THEN taxid_node_dict
                          ELSE res.cache
    /\ taxids_parent_children_dict' =
          IF taxonomy_initialized = FALSE THEN taxids_parent_children_dict
          ELSE children
    /\ UNCHANGED store

\* a call that assigns to no list of children
Answer(op, arg, args, res) ==
    AnswerLeaving(op, arg, args, res, taxids_parent_children_dict)

OnRAM(out) == R(out, taxid_node_dict)

\* the caller is not in a call
Calling == ret = NoCall

QueryPairs == {<<a, b>> : a \in QueryIds, b \in QueryIds}

\* the collections of taxids a common ancestor is asked for: of one or two
QueryLists == {<<a>> : a \in QueryIds} \cup QueryPairs

updated_taxid ==
    /\ Calling
    /\ \E taxid \in QueryIds :
        Answer("updated_taxid", taxid, <<>>,
               IF backend = "RAM" THEN OnRAM(RAM_updated_taxid(taxid))
               ELSE OnRAM(RetInt(SQL_updated_taxid(taxid))))

valid_raise ==
    /\ Calling
    /\ \E taxid \in QueryIds :
        Answer("taxid_valid_raise", taxid, <<>>,
               IF backend = "RAM" THEN OnRAM(RAM_taxid_valid_raise(taxid))
               ELSE OnRAM(taxid_valid_raise(taxid)))

in_db_raise ==
    /\ Calling
    /\ \E taxid \in QueryIds :
        Answer("taxid_in_db_raise", taxid, <<>>,
               IF backend = "RAM" THEN OnRAM(RAM_taxid_in_db_raise(taxid))
               ELSE OnRAM(taxid_in_db_raise(taxid)))

node_for_taxid ==
    /\ Calling
    /\ backend = "SQL"
    /\ \E taxid \in QueryIds :
        Answer("node_for_taxid", taxid, <<>>,
               SQL_node_for_taxid(taxid, taxid_node_dict))

parent_taxid ==
    /\ Calling
    /\ \E taxid \in QueryIds :
        Answer("parent_taxid", taxid, <<>>,
               IF backend = "RAM" THEN OnRAM(RAM_parent_taxid(taxid))
               ELSE SQL_parent_taxid(taxid, taxid_node_dict))

children_taxids ==
    /\ Calling
    /\ \E taxid \in QueryIds :
        Answer("children_taxids", taxid, <<>>,
               IF backend = "RAM" THEN OnRAM(RAM_children_taxids(taxid))
               ELSE SQL_children_taxids(taxid, taxid_node_dict))

lineage_of_nodes ==
    /\ Calling
    /\ backend = "SQL"
    /\ \E taxid \in QueryIds :
        Answer("lineage_of_nodes", taxid, <<>>,
               SQL_lineage_of_nodes(taxid, taxid_node_dict))

\* lineage_for_taxid of TaxonomyRAM, lineage_of_taxids of TaxonomySQL
lineage ==
    /\ Calling
    /\ \E taxid \in QueryIds :
        Answer("lineage", taxid, <<>>,
               IF backend = "RAM" THEN OnRAM(RAM_lineage_for_taxid(taxid))
               ELSE SQL_lineage_of_taxids(taxid, taxid_node_dict))

\* TaxonomyRAM works on the stored list of children that children_taxids
\* hands out; TaxonomySQL on a set that children_taxids has just built
all_descending_taxids ==
    /\ Calling
    /\ \E taxid \in QueryIds :
        AnswerLeaving("all_descending_taxids", taxid, <<>>,
               IF backend = "RAM" THEN OnRAM(RAM_all_descending_taxids(taxid))
               ELSE SQL_all_descending_taxids(taxid, taxid_node_dict),
               IF backend = "RAM" THEN RAM_stored_children(taxid)
               ELSE taxids_parent_children_dict)

\* shared_taxid_for_taxids of TaxonomyRAM, common_taxid of TaxonomySQL
common_taxid ==
    /\ Calling
    /\ \E taxids \in QueryLists :
        \E res \in IF backend = "RAM"
                   THEN {OnRAM(o) : o \in RAM_shared_taxid_for_taxids(taxids)}
                   ELSE SQL_common_taxid(taxids, taxid_node_dict) :
            Answer("common_taxid", 0, taxids, res)

all_descending_taxids_for_taxids ==
    /\ Calling
    /\ \E taxids \in QueryPairs :
        \E res \in IF backend = "RAM"
                   THEN {OnRAM(o) : o \in RAM_all_descending_taxids_for_taxids(taxids)}
                   ELSE SQL_all_descending_taxids_for_taxids(taxids, taxid_node_dict) :
            Answer("all_descending_taxids_for_taxids", 0, taxids, res)

path_between_taxids ==
    /\ Calling
    /\ \E taxids \in QueryPairs :
        Answer("path_between_taxids", 0, taxids,
               IF backend = "RAM"
               THEN OnRAM(RAM_path_between_taxids(taxids[1], taxids[2]))
               ELSE SQL_path_between_taxids(taxids[1], taxids[2], taxid_node_dict))

\* genetic_code_for_taxid of either backend
genetic_code ==
    /\ Calling
    /\ \E taxid \in QueryIds :
        Answer("genetic_code_for_taxid", taxid, <<>>,
               IF backend = "RAM" THEN OnRAM(RAM_genetic_code_for_taxid(taxid))
               ELSE SQL_genetic_code_for_taxid(taxid, taxid_node_dict))

\* the caller takes the outcome of its call and goes on
Return ==
    /\ ret # NoCall
    /\ ret' = NoCall
    /\ UNCHANGED <<store, taxid_node_dict, taxids_parent_children_dict>>

QueryNext ==
    \/ Return
    \/ updated_taxid
    \/ valid_raise
    \/ in_db_raise
    \/ node_for_taxid
    \/ parent_taxid
    \/ children_taxids
    \/ lineage_of_nodes
    \/ lineage
    \/ all_descending_taxids
    \/ common_taxid
    \/ all_descending_taxids_for_taxids
    \/ path_between_taxids
    \/ genetic_code

QuerySpec == QueryInit /\ [][QueryNext]_vars

(***************************************************************************)
(* Queries by name and rank.                                               *)
(***************************************************************************)
\* the names a caller asks about: the empty name, the three names of the
\* dumps, a name in capitals, a name after a space, the name of node 2
QueryNames == {<<>>, <<"A", "A">>, <<" ", "a", "a">>, ScientificName(2)}
                  \cup ExtraNames

taxids_for_name ==
    /\ Calling
    /\ \E name \in QueryNames :
        Answer("taxids_for_name", 0, <<name>>,
               IF backend = "RAM" THEN OnRAM(RAM_taxids_for_name(name))
               ELSE OnRAM(SQL_taxids_for_name(name)))

\* tax_id_for_name_and_group_tax_id of TaxonomyRAM
taxid_for_name_and_group ==
    /\ Calling
    /\ \E name \in QueryNames, grp_taxid \in QueryIds :
        Answer("taxid_for_name_and_group_taxid", grp_taxid, <<name>>,
               IF backend = "RAM"
               THEN OnRAM(RAM_tax_id_for_name_and_group_tax_id(name, grp_taxid))
               ELSE taxid_for_name_and_group_taxid(name, grp_taxid, taxid_node_dict))

higher_rank_for_taxid ==
    /\ Calling
    /\ \E taxid \in QueryIds, rank \in Ranks, name_class \in NAME_CLASSES :
        Answer("higher_rank_for_taxid", taxid, <<rank, name_class>>,
               IF backend = "RAM"
               THEN OnRAM(RAM_higher_rank_for_taxid(taxid, rank, name_class))
               ELSE SQL_higher_rank_for_taxid(taxid, rank, name_class,
                                              taxid_node_dict))

names_for_taxid ==
    /\ Calling
    /\ \E taxid \in QueryIds :
        Answer("names_for_taxid", taxid, <<>>,
               IF backend = "RAM" THEN OnRAM(RAM_names_for_taxid(taxid))
               ELSE SQL_names_for_taxid(taxid, taxid_node_dict))

\* name_class_for_taxid of TaxonomyRAM, names_of_class_for_taxid of TaxonomySQL
names_of_class ==
    /\ Calling
    /\ \E taxid \in QueryIds, name_class \in NAME_CLASSES :
        Answer("names_of_class_for_taxid", taxid, <<name_class>>,
               IF backend = "RAM"
               THEN OnRAM(RAM_name_class_for_taxid(taxid, name_class))
               ELSE names_of_class_for_taxid(taxid, name_class, taxid_node_dict))

NameInit == \E b \in Backends, d \in NameDumps \cup RankDumps : Loaded(b, d)

NameNext ==
    \/ Return
    \/ taxids_for_name
    \/ taxid_for_name_and_group
    \/ higher_rank_for_taxid
    \/ names_for_taxid
    \/ names_of_class

NameSpec == NameInit /\ [][NameNext]_vars

(***************************************************************************)
(* Queries of genetic codes.                                               *)
(***************************************************************************)
\* the taxids a caller asks a plastid code for
PlastidQueryIds == QueryIds \cup {taxid_bala}

\* the ids a caller asks a translation table for: the standard code and an
\* id that gencode.dmp does not have, each as an int and as a str
QueryGcids == {PyInt(1), PyStr(1), PyInt(3), PyStr(3)}

contains_plastid_query ==
    /\ Calling
    /\ \E taxid \in PlastidQueryIds :
        \E res \in IF backend = "RAM"
                   THEN {OnRAM(o) : o \in RAM_contains_plastid(taxid)}
                   ELSE contains_plastid(taxid, taxid_node_dict) :
            Answer("contains_plastid", taxid, <<>>, res)

plastid_genetic_code ==
    /\ Calling
    /\ \E taxid \in PlastidQueryIds :
        \E res \in IF backend = "RAM"
                   THEN {OnRAM(o) : o \in RAM_plastid_genetic_code_for_taxid(taxid)}
                   ELSE plastid_genetic_code_for_taxid(taxid, taxid_node_dict) :
            Answer("plastid_genetic_code_for_taxid", taxid, <<>>, res)

trans_table_for_gcid ==
    /\ Calling
    /\ \E gcid \in QueryGcids :
        Answer("trans_table_for_genetic_code_id", 0, <<gcid>>,
               IF backend = "RAM"
               THEN OnRAM(RAM_trans_table_for_genetic_code_id(gcid))
               ELSE OnRAM(trans_table_for_genetic_code_id(gcid)))

CodeInit == \E b \in Backends, d \in CodeDumps : Loaded(b, d)

CodeNext ==
    \/ Return
    \/ genetic_code
    \/ trans_table_for_gcid

CodeSpec == CodeInit /\ [][CodeNext]_vars

PlastidInit == \E b \in Backends, d \in PlastidDumps : Loaded(b, d)

PlastidNext ==
    \/ Return
    \/ contains_plastid_query
    \/ plastid_genetic_code

PlastidSpec == PlastidInit /\ [][PlastidNext]_vars

(***************************************************************************)
(* Loading.  A load runs as a sequence of steps, one per table, in the     *)
(* order of the code; queries of other callers may come between two steps. *)
(* The outcome of a call is taken by its caller before the next step.      *)
(***************************************************************************)
tables == <<tab, taxids_child_parent_dict, taxids_parent_children_dict,
            taxids_merged_dict, taxids_deleted_set,
            taxids_rank_dict, tx_names, codons,
            gen_code_id_translation_table_dict, gen_code_id_start_codons_dict,
            taxids_genetic_code_id_dict, taxids_mito_genetic_code_id_dict>>

\* the effect of loading one table from the dump on disk
LoadTable(t) ==
    /\ tab' = [tab EXCEPT ![t] = dmp.gen]
    /\ taxids_deleted_set' = IF t = "deleted" THEN dmp.deleted ELSE taxids_deleted_set
    /\ taxids_merged_dict' = IF t = "merged" THEN dmp.merged ELSE taxids_merged_dict
    /\ taxids_child_parent_dict' =
          IF t = "nodes" THEN dmp.nodes ELSE taxids_child_parent_dict
    /\ taxids_parent_children_dict' =
          IF t = "nodes" THEN parse_nodes_dump(dmp.nodes)
          ELSE taxids_parent_children_dict
    /\ taxids_rank_dict' = IF t = "nodes" THEN dmp.ranks ELSE taxids_rank_dict
    /\ tx_names' = IF t = "names" THEN dmp.names ELSE tx_names
    /\ codons' = IF t = "codons" THEN dmp.codes.codons ELSE codons
    /\ gen_code_id_translation_table_dict' =
          IF t = "gencode" THEN dmp.codes.tt ELSE gen_code_id_translation_table_dict
    /\ gen_code_id_start_codons_dict' =
          IF t = "gencode" THEN dmp.codes.sc ELSE gen_code_id_start_codons_dict
    /\ taxids_genetic_code_id_dict' =
          IF t = "nodes" THEN dmp.codes.gc ELSE taxids_genetic_code_id_dict
    /\ taxids_mito_genetic_code_id_dict' =
          IF t = "nodes" THEN dmp.codes.mito ELSE taxids_mito_genetic_code_id_dict

\* the order in which TaxonomyRAM._update assigns the tables
RAM_Order == <<"codons", "names", "deleted", "merged", "nodes", "gencode">>

NextOf(order, t) ==
    LET i == CHOOSE j \in 1..Len(order) : order[j] = t
    IN  IF i = Len(order) THEN "flag" ELSE order[i + 1]

\* TaxonomyRAM.init, up to the first table of _update; on a loaded store it
\* prints 'Already initialized.' and returns None
RAM_init ==
    /\ Calling
    /\ backend = "RAM" /\ pc = Idle
    /\ IF taxonomy_initialized
       THEN /\ ret' = Call("init", 0, <<>>, RetNone)
            /\ UNCHANGED <<store, taxid_node_dict, taxids_parent_children_dict>>
       ELSE /\ paths' = TRUE
            /\ dmp' = update_ncbi_taxonomy_data(FALSE)
            /\ pc' = At("init", RAM_Order[1])
            /\ UNCHANGED <<backend, dnld, remote_gen, taxonomy_initialized, tables,
                           db_commits, taxid_node_dict, reloads, ret>>

\* TaxonomyRAM._update, up to its first table; it reloads a loaded store
\* when a file of the dump is missing, and else returns None at once
RAM_update ==
    /\ Calling
    /\ backend = "RAM" /\ pc = Idle
    /\ IF paths = FALSE \/ (~download_taxdmp(FALSE) /\ taxonomy_initialized)
       THEN /\ ret' = Call("_update", 0, <<>>, RetNone)
            /\ UNCHANGED <<store, taxid_node_dict, taxids_parent_children_dict>>
       ELSE /\ dmp' = update_ncbi_taxonomy_data(FALSE)
            /\ pc' = At("_update", RAM_Order[1])
            /\ UNCHANGED <<backend, dnld, remote_gen, paths, taxonomy_initialized,
                           tables, db_commits, taxid_node_dict, reloads, ret>>

\* one assignment of _update: a table, or at last _taxonomy_initialized
RAM_update_step ==
    /\ Calling
    /\ backend = "RAM" /\ pc # Idle
    /\ IF pc.step = "flag"
       THEN /\ taxonomy_initialized' = TRUE
            /\ reloads' = IF taxonomy_initialized THEN reloads + 1 ELSE reloads
            /\ pc' = Idle
            /\ UNCHANGED tables
       ELSE /\ LoadTable(pc.step)
            /\ pc' = At(pc.op, NextOf(RAM_Order, pc.step))
            /\ UNCHANGED <<taxonomy_initialized, reloads>>
    /\ UNCHANGED <<backend, dnld, remote_gen, dmp, paths, db_commits, taxid_node_dict, ret>>

\* the tables Taxonomy.update assigns: _codons, then the genetic code tables
SQL_Order == <<"codons", "gencode">>

\* TaxonomySQL.init: Taxonomy.init up to the first table of Taxonomy.update;
\* on a loaded store Taxonomy.init returns 1
SQL_init ==
    /\ Calling
    /\ backend = "SQL" /\ pc = Idle
    /\ IF taxonomy_initialized
       THEN /\ ret' = Call("init", 0, <<>>, RetInt(1))
            /\ UNCHANGED <<store, taxid_node_dict, taxids_parent_children_dict>>
       ELSE /\ paths' = TRUE
            /\ dmp' = update_ncbi_taxonomy_data(FALSE)
            /\ pc' = At("init", SQL_Order[1])
            /\ UNCHANGED <<backend, dnld, remote_gen, taxonomy_initialized, tables,
                           db_commits, taxid_node_dict, reloads, ret>>

\* TaxonomySQL.update(check_for_updates), up to the first table; it ends at
\* once with 'not_initialized' or 'no_changes'
SQL_update ==
    /\ Calling
    /\ backend = "SQL" /\ pc = Idle
    /\ \E check_for_updates \in BOOLEAN :
        IF paths = FALSE
        THEN /\ ret' = Call("update", 0, <<>>, RetStr("not_initialized"))
             /\ UNCHANGED <<store, taxid_node_dict, taxids_parent_children_dict>>
        ELSE IF ~download_taxdmp(check_for_updates) /\ taxonomy_initialized
        THEN /\ ret' = Call("update", 0, <<>>, RetStr("no_changes"))
             /\ UNCHANGED <<store, taxid_node_dict, taxids_parent_children_dict>>
        ELSE /\ dmp' = update_ncbi_taxonomy_data(check_for_updates)
             /\ pc' = At("update", SQL_Order[1])
             /\ UNCHANGED <<backend, dnld, remote_gen, paths, taxonomy_initialized,
                            tables, db_commits, taxid_node_dict, reloads, ret>>

\* one assignment of Taxonomy.update; update ends after the last, init goes
\* on to the database
SQL_update_step ==
    /\ Calling
    /\ backend = "SQL" /\ pc.op \in {"init", "update"}
    /\ pc.step \in ToSet(SQL_Order)
    /\ LoadTable(pc.step)
    /\ pc' = IF NextOf(SQL_Order, pc.step) # "flag"
             THEN At(pc.op, NextOf(SQL_Order, pc.step))
             ELSE IF pc.op = "init" THEN At("init", "select") ELSE Idle
    /\ reloads' = IF NextOf(SQL_Order, pc.step) = "flag" /\ pc.op = "update"
                     /\ taxonomy_initialized
                  THEN reloads + 1 ELSE reloads
    /\ UNCHANGED <<backend, dnld, remote_gen, dmp, paths, taxonomy_initialized,
                   db_commits, taxid_node_dict, ret>>

\* TaxonomySQL.init after Taxonomy.init: init_db opens the session, and the
\* node with tax_id 1 is looked for; populate_db runs when it is not there
SQL_select_root ==
    /\ Calling
    /\ backend = "SQL" /\ pc = At("init", "select")
    /\ pc' = IF SQL_taxid_active(root_taxid) THEN At("init", "flag")
             ELSE At("populate_db", PopulateSteps[1])
    /\ UNCHANGED <<backend, dnld, remote_gen, dmp, paths, taxonomy_initialized, tables,
                   db_commits, taxid_node_dict, reloads, ret>>

\* the next table of populate_db.  An insert into a table that holds rows of
\* an earlier run fails with IntegrityError, which init does not catch; else
\* the rows are committed.
populate_db ==
    /\ Calling
    /\ backend = "SQL" /\ pc # Idle /\ pc.op = "populate_db"
    /\ LET i == CHOOSE j \in 1..Len(PopulateSteps) : PopulateSteps[j] = pc.step
       IN  IF db_commits >= i
           THEN /\ pc' = Idle
                /\ UNCHANGED <<tables, db_commits>>
           ELSE /\ db_commits' = i
                /\ pc' = IF i = Len(PopulateSteps) THEN At("init", "flag")
                         ELSE At("populate_db", PopulateSteps[i + 1])
                /\ tab' = IF pc.step = "deleted_nodes" THEN [tab EXCEPT !.deleted = dmp.gen]
                          ELSE IF pc.step = "nodes_update" THEN [tab EXCEPT !.nodes = dmp.gen]
                          ELSE IF pc.step = "merged_nodes" THEN [tab EXCEPT !.merged = dmp.gen]
                          ELSE IF pc.step = "names" THEN [tab EXCEPT !.names = dmp.gen]
                          ELSE tab
                /\ taxids_deleted_set' =
                      IF pc.step = "deleted_nodes" THEN dmp.deleted
                      ELSE taxids_deleted_set
                /\ taxids_child_parent_dict' =
                      IF pc.step = "nodes_insert" THEN StarNodes(DOMAIN dmp.nodes)
                      ELSE IF pc.step = "nodes_update" THEN dmp.nodes
                      ELSE taxids_child_parent_dict
                /\ taxids_merged_dict' =
                      IF pc.step = "merged_nodes" THEN dmp.merged
                      ELSE taxids_merged_dict
                /\ taxids_rank_dict' =
                      IF pc.step = "nodes_insert" THEN dmp.ranks
                      ELSE taxids_rank_dict
                /\ tx_names' = IF pc.step = "names" THEN dmp.names ELSE tx_names
                /\ taxids_genetic_code_id_dict' =
                      IF pc.step = "nodes_insert" THEN dmp.codes.gc
                      ELSE taxids_genetic_code_id_dict
                /\ taxids_mito_genetic_code_id_dict' =
                      IF pc.step = "nodes_insert" THEN dmp.codes.mito
                      ELSE taxids_mito_genetic_code_id_dict
                /\ UNCHANGED <<codons, gen_code_id_translation_table_dict,
                               gen_code_id_start_codons_dict,
                               taxids_parent_children_dict>>
    /\ UNCHANGED <<backend, dnld, remote_gen, dmp, paths, taxonomy_initialized,
                   taxid_node_dict, reloads, ret>>

\* the end of TaxonomySQL.init: the flag, then _root_node = node_for_taxid(1)
SQL_init_flag ==
    /\ Calling
    /\ backend = "SQL" /\ pc = At("init", "flag")
    /\ taxonomy_initialized' = TRUE
    /\ taxid_node_dict' = SQL_node_for_taxid(root_taxid, taxid_node_dict).cache
    /\ pc' = Idle
    /\ UNCHANGED <<backend, dnld, remote_gen, dmp, paths, tables, db_commits, reloads, ret>>

\* a step of a load raises (a file that cannot be read or parsed, a lost
\* connection): the call ends there; what was assigned or committed stays
LoadFails ==
    /\ Calling
    /\ pc # Idle
    /\ pc' = Idle
    /\ UNCHANGED <<backend, dnld, remote_gen, dmp, paths, taxonomy_initialized, tables,
                   db_commits, taxid_node_dict, reloads, ret>>

\* the process ends, in a load or not, and a new one starts: the class
\* attributes are gone, the dump on disk and the database stay
Restart ==
    /\ Calling
    /\ pc' = Idle
    /\ paths' = FALSE
    /\ taxonomy_initialized' = FALSE
    /\ taxid_node_dict' = EmptyFn
    /\ reloads' = 0
    /\ ret' = NoCall
    /\ IF backend = "RAM"
       THEN /\ tab' = NoTab
            /\ taxids_child_parent_dict' = EmptyFn
            /\ taxids_parent_children_dict' = EmptyFn
            /\ taxids_merged_dict' = EmptyFn
            /\ taxids_deleted_set' = {}
            /\ taxids_rank_dict' = EmptyFn
            /\ tx_names' = <<>>
            /\ taxids_genetic_code_id_dict' = EmptyFn
            /\ taxids_mito_genetic_code_id_dict' = EmptyFn
       ELSE /\ tab' = [tab EXCEPT !.codons = 0, !.gencode = 0]
            /\ UNCHANGED <<taxids_child_parent_dict, taxids_parent_children_dict,
                           taxids_merged_dict,
                           taxids_deleted_set, taxids_rank_dict, tx_names,
                           taxids_genetic_code_id_dict,
                           taxids_mito_genetic_code_id_dict>>
    /\ codons' = <<>>
    /\ gen_code_id_translation_table_dict' = EmptyFn
    /\ gen_code_id_start_codons_dict' = EmptyFn
    /\ UNCHANGED <<backend, dnld, remote_gen, dmp, db_commits>>

\* NCBI publishes the next release of the dump
Publish ==
    /\ Calling
    /\ remote_gen < MaxGen
    /\ remote_gen' = remote_gen + 1
    /\ UNCHANGED <<backend, dnld, dmp, paths, taxonomy_initialized, tables, db_commits,
                   taxid_node_dict, reloads, pc, ret>>

\* a file of the dump is removed from the data directory
LoseDumpFile ==
    /\ Calling
    /\ pc = Idle /\ dmp # NoDump /\ reloads < MaxReloads
    /\ dmp' = NoDump
    /\ UNCHANGED <<backend, dnld, remote_gen, paths, taxonomy_initialized, tables,
                   db_commits, taxid_node_dict, reloads, pc, ret>>

(***************************************************************************)
(* The download of the dump.  update_ncbi_taxonomy_data moves the old      *)
(* directory away and calls dnld_zip_check_md5_then_extract, which fetches *)
(* the archive and its .md5 file, compares the digests and either extracts *)
(* the archive or calls itself.  An archive is an integer: g > 0 is        *)
(* taxdmp.zip of release g as published, -g a damaged copy of it, 0 no     *)
(* file.  A digest is an integer, 0 standing for the empty string.  NCBI   *)
(* may publish a release between two downloads.                            *)
(***************************************************************************)
\* the MD5 digest of the bytes of an archive; no two archives collide
md5(content) == IF content > 0 THEN 2 * content ELSE 2 * (-content) + 1

\* the line of taxdmp.zip.md5 that NCBI publishes with release g
Md5Line(g) == <<md5(g), "taxdmp.zip">>

\* '' when the file cannot be opened
generate_md5_hash_for_file(file) == IF file = 0 THEN 0 ELSE md5(file)

\* the first word of the first line; '' when the file cannot be opened
extract_md5_hash(file) == IF file = <<>> THEN 0 ELSE file[1]

\* what download_file can leave at local_path: the file as published, a
\* damaged file, or, urlretrieve, curl and wget all having failed (the
\* exception is printed, not raised), what was there before
download_file(published, damaged, before) == {published, before} \cup damaged

RaisedBy(e) ==
    /\ ret' = Call("update_ncbi_taxonomy_data", 0, <<>>, Raise(e))
    /\ pc' = Idle
    /\ attempt' = 0

\* update_ncbi_taxonomy_data up to the call of dnld_zip_check_md5_then_extract:
\* it returns False when nothing is to be downloaded; else the directory is
\* moved to .bak when it holds an .md5 file
update_ncbi_taxonomy_data_begin ==
    /\ Calling
    /\ pc = Idle
    /\ \E force_redownload \in BOOLEAN, check_for_updates \in BOOLEAN :
         IF force_redownload \/ download_taxdmp(check_for_updates)
         THEN /\ dmp' = NoDump
              /\ zip_file' = IF dmp # NoDump \/ md5_file # <<>> THEN 0 ELSE zip_file
              /\ md5_file' = <<>>
              /\ attempt' = 1
              /\ pc' = At("dnld", "zip")
              /\ UNCHANGED ret
         ELSE /\ ret' = Call("update_ncbi_taxonomy_data", 0, <<>>, RetBool(FALSE))
              /\ UNCHANGED <<dmp, dnld, pc>>
    /\ UNCHANGED <<backend, remote_gen, paths, taxonomy_initialized, tables,
                   db_commits, taxid_node_dict, reloads>>

\* download_file(zip_url, zip_path)
download_zip ==
    /\ Calling
    /\ pc = At("dnld", "zip")
    /\ zip_file' \in download_file(remote_gen, {-remote_gen}, zip_file)
    /\ pc' = At("dnld", "md5")
    /\ UNCHANGED <<backend, remote_gen, dmp, paths, taxonomy_initialized, tables,
                   db_commits, taxid_node_dict, reloads, ret, md5_file, attempt>>

\* download_file(md5_url, md5_path)
download_md5 ==
    /\ Calling
    /\ pc = At("dnld", "md5")
    /\ md5_file' \in download_file(Md5Line(remote_gen), {}, md5_file)
    /\ pc' = At("dnld", "check")
    /\ UNCHANGED <<backend, remote_gen, dmp, paths, taxonomy_initialized, tables,
                   db_commits, taxid_node_dict, reloads, ret, zip_file, attempt>>

\* the two digests that dnld_zip_check_md5_then_extract compares are equal
md5_matches == extract_md5_hash(md5_file) = generate_md5_hash_for_file(zip_file)

\* the comparison of the digests and what follows it: the nested call, which
\* the interpreter refuses with RecursionError when the calls are nested
\* RecursionLimit deep, or ZipFile(...).extractall, which raises when there
\* is no archive
check_md5_then_extract ==
    /\ Calling
    /\ pc = At("dnld", "check")
    /\ IF ~md5_matches
       THEN IF attempt >= RecursionLimit
            THEN RaisedBy("RecursionError") /\ UNCHANGED dmp
            ELSE /\ attempt' = attempt + 1
                 /\ pc' = At("dnld", "zip")
                 /\ UNCHANGED <<dmp, ret>>
       ELSE IF zip_file = 0
            THEN RaisedBy("FileNotFoundError") /\ UNCHANGED dmp
            ELSE /\ dmp' = Release(zip_file)
                 /\ attempt' = 0
                 /\ pc' = At("dnld", "remove")
                 /\ UNCHANGED ret
    /\ UNCHANGED <<backend, remote_gen, paths, taxonomy_initialized, tables,
                   db_commits, taxid_node_dict, reloads, zip_file, md5_file>>

\* the end of update_ncbi_taxonomy_data: os.remove(taxdmp_zip_path), and True
remove_zip ==
    /\ Calling
    /\ pc = At("dnld", "remove")
    /\ zip_file' = 0
    /\ ret' = Call("update_ncbi_taxonomy_data", 0, <<>>, RetBool(TRUE))
    /\ pc' = Idle
    /\ UNCHANGED <<backend, remote_gen, dmp, paths, taxonomy_initialized, tables,
                   db_commits, taxid_node_dict, reloads, md5_file, attempt>>

\* init_local_storage has given the paths; the directory is empty or holds
\* the dump of the first release
DownloadInit ==
    /\ backend \in Backends
    /\ remote_gen = 1
    /\ dmp \in {NoDump, Release(1)}
    /\ paths = TRUE
    /\ taxonomy_initialized = FALSE
    /\ tab = NoTab
    /\ taxids_child_parent_dict = EmptyFn
    /\ taxids_parent_children_dict = EmptyFn
    /\ taxids_merged_dict = EmptyFn
    /\ taxids_deleted_set = {}
    /\ taxids_rank_dict = EmptyFn
    /\ tx_names = <<>>
    /\ codons = <<>>
    /\ gen_code_id_translation_table_dict = EmptyFn
    /\ gen_code_id_start_codons_dict = EmptyFn
    /\ taxids_genetic_code_id_dict = EmptyFn
    /\ taxids_mito_genetic_code_id_dict = EmptyFn
    /\ db_commits = 0
    /\ taxid_node_dict = EmptyFn
    /\ reloads = 0
    /\ pc = Idle
    /\ ret = NoCall
    /\ zip_file = 0 /\ md5_file = <<>> /\ attempt = 0

DownloadNext ==
    \/ update_ncbi_taxonomy_data_begin
    \/ download_zip
    \/ download_md5
    \/ check_md5_then_extract
    \/ remove_zip
    \/ Publish
    \/ Return

DownloadSpec == DownloadInit /\ [][DownloadNext]_vars

Next ==
    \/ RAM_init
    \/ RAM_update
    \/ RAM_update_step
    \/ SQL_init
    \/ SQL_update
    \/ SQL_update_step
    \/ SQL_select_root
    \/ populate_db
    \/ SQL_init_flag
    \/ LoadFails
    \/ Restart
    \/ Publish
    \/ LoseDumpFile
    \/ Return
    \/ updated_taxid
    \/ node_for_taxid
    \/ lineage_of_nodes

Spec == Init /\ [][Next]_vars

(***************************************************************************)
(* Where a taxid is, by the tables the store holds.                        *)
(***************************************************************************)
Active(taxid) == taxid \in DOMAIN taxids_child_parent_dict
Merged(taxid) == taxid \in DOMAIN taxids_merged_dict
Deleted(taxid) == taxid \in taxids_deleted_set
DeletedOnly(taxid) == Deleted(taxid) /\ ~Active(taxid) /\ ~Merged(taxid)
Unknown(taxid) == ~Active(taxid) /\ ~Merged(taxid) /\ ~Deleted(taxid)

\* the call that has just ended was the query op of a loaded store
Asked(op) == ret.op = op /\ ret.initd

(***************************************************************************)
(* C1: updated_taxid classifies by first match in the order Active,        *)
(* Merged, Deleted: a taxid of the node table comes back unchanged even    *)
(* when it is also in the merged mapping or the deleted set; the merged    *)
(* mapping decides only for a taxid that is not a node, and the deleted    *)
(* set only for a taxid that is in neither.                                *)
(***************************************************************************)
C1_FirstMatchOrder ==
    Asked("updated_taxid") =>
        IF Active(ret.arg) THEN ret.out = RetInt(ret.arg)
        ELSE IF Merged(ret.arg) THEN ret.out = RetInt(taxids_merged_dict[ret.arg])
        ELSE Deleted(ret.arg) => ~(ret.out.k = "int" /\ ret.out.v >= 0)

(***************************************************************************)
(* C2: resolving a taxid that is only in the deleted set, or in no table.  *)
(***************************************************************************)
\* the queries of one taxid that resolve it
ResolvingOps == {"updated_taxid", "taxid_valid_raise", "node_for_taxid",
                 "parent_taxid", "children_taxids", "lineage",
                 "lineage_of_nodes", "all_descending_taxids"}

AskedResolving == ret.op \in ResolvingOps /\ ret.initd

\* what taxid_valid_raise of the backend raises
InvalidIdError ==
    IF backend = "RAM" THEN Raise(RAM_NotValid) ELSE Raise("TaxIdInvalidError")

QueryOps == {"updated_taxid", "taxid_valid_raise", "taxid_in_db_raise",
             "node_for_taxid", "parent_taxid", "children_taxids", "lineage",
             "lineage_of_nodes", "all_descending_taxids", "common_taxid",
             "all_descending_taxids_for_taxids", "path_between_taxids"}

\* the call that has just ended was a query of a store not yet loaded
AskedTooEarly == ret.op \in QueryOps /\ ~ret.initd

HoldsRelease(g) ==
    /\ tab = AllTab(g)
    /\ taxids_child_parent_dict = Release(g).nodes
    /\ taxids_merged_dict = Release(g).merged
    /\ taxids_deleted_set = Release(g).deleted

C4_AllOrNothing == taxonomy_initialized => \E g \in 1..MaxGen : HoldsRelease(g)

(***************************************************************************)
(* C5: a query that runs while an update reloads a loaded store sees all   *)
(* tables of the old snapshot or all tables of the new one, never some of  *)
(* each.                                                                   *)
(***************************************************************************)
C5_NoPartialMix ==
    (ret.op \in QueryOps /\ ret.initd) => \E g \in 1..MaxGen : ret.tabs = AllTab(g)

(***************************************************************************)
(* C6: the node cache of TaxonomySQL does not outlive a reload: after an   *)
(* update that reloaded the data, no call of node_for_taxid or of lineage  *)
(* returns a Node object that was cached before the reload.                *)
(***************************************************************************)
C6_CacheInvalidated ==
    ((Asked("node_for_taxid") \/ Asked("lineage_of_nodes"))
        /\ ret.out.k \in {"node", "nodes"})
    => \A stamp \in ret.out.stamps : stamp >= ret.at

(***************************************************************************)
(* C7: for every active taxid reachable from the root the lineage has at   *)
(* least one element, begins with the root taxid 1, ends with the taxid,   *)
(* and each later element has the one before it as its parent; the         *)
(* lineage of the root is [root].                                          *)
(***************************************************************************)
AskedLineage == Asked("lineage") \/ Asked("lineage_of_nodes")

Reachable(taxid) ==
    /\ Active(taxid)
    /\ ReachesRoot(taxids_child_parent_dict, taxid,
                   Cardinality(DOMAIN taxids_child_parent_dict))

IsLineageOf(l, taxid) ==
    /\ Len(l) >= 1
    /\ l[1] = root_taxid
    /\ l[Len(l)] = taxid
    /\ \A i \in 2..Len(l) : Active(l[i]) /\ taxids_child_parent_dict[l[i]] = l[i - 1]
    /\ taxid = root_taxid => l = <<root_taxid>>

C7_LineageShape ==
    (AskedLineage /\ Reachable(ret.arg)) =>
        /\ ret.out.k \in {"seq", "nodes"}
        /\ IsLineageOf(ret.out.s, ret.arg)

(***************************************************************************)
(* C8: on a node table with a cycle of parent pointers that misses the     *)
(* root, the lineage of a taxid that leads into the cycle ends with        *)
(* MalformedTreeError when a depth bound is passed.                        *)
(***************************************************************************)
C8_BoundedWalk ==
    (AskedLineage /\ Active(ret.arg) /\ ~Reachable(ret.arg)
                  /\ ~Merged(ret.arg) /\ ~Deleted(ret.arg)) =>
        ret.out = Raise("MalformedTreeError")

(***************************************************************************)
(* C9: all_descending_taxids ends with a result for every valid taxid of   *)
(* a well-formed dump, the root taxid 1 included; so does                  *)
(* all_descending_taxids_for_taxids when the common ancestor is the root.  *)
(***************************************************************************)
Valid(taxid) == Active(taxid) \/ Merged(taxid)

C9_DescendantsTerminate ==
    /\ (Asked("all_descending_taxids") /\ WellFormed(taxids_child_parent_dict)
          /\ Valid(ret.arg))
       => ret.out.k # "raise"
    /\ (Asked("all_descending_taxids_for_taxids")
          /\ WellFormed(taxids_child_parent_dict)
          /\ \A i \in 1..Len(ret.args) : Valid(ret.args[i]))
       => ret.out.k # "raise"

(***************************************************************************)
(* C10: what all_descending_taxids(p) returns, against the lineages.       *)
(***************************************************************************)
\* the taxids a call of all_descending_taxids gave: a list on TaxonomyRAM,
\* None there for a taxid without children, a set on TaxonomySQL
Returned(out) ==
    IF out.k = "seq" THEN ToSet(out.s) ELSE IF out.k = "set" THEN out.st ELSE {}

\* the taxids of the lineage of taxid; none when the lineage fails
LineageSet(taxid) ==
    LET l == IF backend = "RAM" THEN RAM_lineage_for_taxid(taxid)
             ELSE SQL_lineage_of_taxids(taxid, taxid_node_dict).out
    IN  IF l.k = "raise" THEN {} ELSE ToSet(l.s)

\* the outcomes the common ancestor of taxids can have
CommonOutcomes(taxids) ==
    IF backend = "RAM" THEN RAM_shared_taxid_for_taxids(taxids)
    ELSE {r.out : r \in SQL_common_taxid(taxids, taxid_node_dict)}

\* no taxid is in two of the three tables
Disjoint ==
    \A t \in QueryIds : ~(Active(t) /\ Merged(t)) /\ ~(Active(t) /\ Deleted(t))
                        /\ ~(Merged(t) /\ Deleted(t))

\* the taxid updated_taxid of the backend gives for a valid taxid; 0 for None
Resolved(taxid) ==
    IF backend = "RAM"
    THEN LET u == RAM_updated_taxid(taxid) IN IF u.k = "int" THEN u.v ELSE 0
    ELSE SQL_updated_taxid(taxid)

LineageLen(taxid) ==
    LET l == IF backend = "RAM" THEN RAM_lineage_for_taxid(taxid)
             ELSE SQL_lineage_of_taxids(taxid, taxid_node_dict).out
    IN  IF l.k = "raise" THEN 0 ELSE Len(l.s)

\* the taxids that are in the lineage of every member of taxids
CommonToAll(taxids) ==
    {x \in QueryIds : \A i \in 1..Len(taxids) : x \in LineageSet(taxids[i])}

AllValid(taxids) == \A i \in 1..Len(taxids) : Valid(taxids[i])

\* C11: for every non-empty collection of valid taxids the common-ancestor
\* operation returns a node that is in the lineage of every member and whose
\* lineage is at least as long as that of every node common to all the
\* members' lineages.  The node table is a rooted tree.
C11_DeepestCommon ==
    (Asked("common_taxid") /\ AllValid(ret.args)
        /\ WellFormed(taxids_child_parent_dict)) =>
        /\ ret.out.k = "int"
        /\ ret.out.v \in CommonToAll(ret.args)
        /\ \A x \in CommonToAll(ret.args) : LineageLen(x) <= LineageLen(ret.out.v)

\* C11 on a rooted tree whose tables share no taxid
C11_OnTree ==
    (Asked("common_taxid") /\ AllValid(ret.args) /\ Disjoint
        /\ WellFormed(taxids_child_parent_dict)) =>
        /\ ret.out.k = "int"
        /\ ret.out.v \in CommonToAll(ret.args)
        /\ \A x \in CommonToAll(ret.args) : LineageLen(x) <= LineageLen(ret.out.v)

(***************************************************************************)
(* C12: the common ancestor of two taxids against the shared prefix of     *)
(* their lineages.                                                         *)
(***************************************************************************)
\* the lineage of taxid as the backend gives it; empty when it fails
LineageOf(taxid) ==
    LET l == IF backend = "RAM" THEN RAM_lineage_for_taxid(taxid)
             ELSE SQL_lineage_of_taxids(taxid, taxid_node_dict).out
    IN  IF l.k = "raise" THEN <<>> ELSE l.s

\* the last element of the longest common prefix of two lineages: the
\* element path_between_lineages puts between the two branches; 0 if none
PrefixPivot(ln1, ln2) ==
    LET k == shared_prefix_len(ln1, ln2) IN IF k = 0 THEN 0 ELSE ln1[k]

\* C12: for two valid taxids a and b the common ancestor that common_node
\* returns for [a, b] is the last element of the longest common prefix of
\* lineage(a) and lineage(b), the element path_between_lineages puts
\* between the two branches; when the lineages have no common prefix,
\* neither gives a node.  TaxonomyRAM agrees when it holds no taxid in two
\* tables.
C12_PrefixEquivalence ==
    (Asked("common_taxid") /\ Len(ret.args) = 2 /\ AllValid(ret.args)
        /\ (backend = "SQL" \/ Disjoint)) =>
        LET pivot == PrefixPivot(LineageOf(ret.args[1]), LineageOf(ret.args[2]))
        IN  IF pivot = 0 THEN ret.out.k = "raise" ELSE ret.out = RetInt(pivot)

\* two taxids on different branches, and the node where the branches part
C12_Witness ==
    /\ Asked("common_taxid") /\ Len(ret.args) = 2 /\ AllValid(ret.args)
    /\ backend = "SQL"
    /\ ret.out.k = "int"
    /\ ret.out.v \notin {ret.args[1], ret.args[2]}
    /\ ret.out.v = PrefixPivot(LineageOf(ret.args[1]), LineageOf(ret.args[2]))
    /\ Len(LineageOf(ret.args[1])) >= 2 /\ Len(LineageOf(ret.args[2])) >= 2

(***************************************************************************)
(* C13: the common ancestor of [x] and of [x, x].                          *)
(***************************************************************************)
\* the call was common_taxid on a collection that holds one taxid only,
\* once or twice
AskedCommonOfOne ==
    /\ Asked("common_taxid")
    /\ \A i \in 1..Len(ret.args) : ret.args[i] = ret.args[1]

IsTreePath(path, a, b, j) ==
    /\ Len(path) >= 1
    /\ path[1] = a
    /\ path[Len(path)] = b
    /\ j \in 1..Len(path)
    /\ \A i \in 1..Len(path) : Active(path[i])
    /\ \A i \in 1..(j - 1) : taxids_child_parent_dict[path[i]] = path[i + 1]
    /\ \A i \in j..(Len(path) - 1) : taxids_child_parent_dict[path[i + 1]] = path[i]
    /\ \A i, k \in 1..Len(path) : path[i] = path[k] => i = k

\* C14: for any two valid taxids of a rooted tree whose tables share no
\* taxid, path_between_taxids(taxid1, taxid2) is a list that starts with
\* taxid1, ends with taxid2, climbs parent by parent to the common ancestor
\* of the two, which it holds once, descends child by child from there, and
\* repeats no node; so too when one taxid is an ancestor of the other or the
\* root.
C14_TreePath ==
    (Asked("path_between_taxids") /\ AllValid(ret.args) /\ Disjoint
        /\ WellFormed(taxids_child_parent_dict)) =>
        /\ ret.out.k = "seq"
        /\ \E j \in 1..Len(ret.out.s) :
              /\ IsTreePath(ret.out.s, ret.args[1], ret.args[2], j)
              /\ CommonOutcomes(ret.args) = {RetInt(ret.out.s[j])}

\* C14 for two active taxids
C14_ActiveTreePath ==
    (Asked("path_between_taxids") /\ Active(ret.args[1]) /\ Active(ret.args[2])
        /\ Disjoint /\ WellFormed(taxids_child_parent_dict)) =>
        /\ ret.out.k = "seq"
        /\ \E j \in 1..Len(ret.out.s) :
              /\ IsTreePath(ret.out.s, ret.args[1], ret.args[2], j)
              /\ CommonOutcomes(ret.args) = {RetInt(ret.out.s[j])}

(***************************************************************************)
(* C15: the path from a to b against the path from b to a.                 *)
(***************************************************************************)
\* what path_between_taxids(a, b) gives on the store as it is
PathOutcome(a, b) ==
    IF backend = "RAM" THEN RAM_path_between_taxids(a, b)
    ELSE SQL_path_between_taxids(a, b, taxid_node_dict).out

Variants(name) ==
    <<name, <<upper(name[1])>> \o Tail(name), <<lower(name[1])>> \o Tail(name)>>

\* the taxids of the rows whose name is exactly `name`
TaxidsNamed(name) == {tx_names[i].tax_id : i \in {j \in 1..Len(tx_names) :
                                                    tx_names[j].name = name}}

\* the variants of the name that are the name of a row
Matching(name) == {i \in 1..3 : TaxidsNamed(Variants(name)[i]) # {}}

C17_FirstVariantOnly ==
    (Asked("taxids_for_name") /\ ret.args[1] # <<>>) =>
        IF Matching(ret.args[1]) = {}
        THEN ret.out \in {RetNone, RetSeq(<<>>)}
        ELSE /\ ret.out.k = "seq"
             /\ ToSet(ret.out.s) =
                    TaxidsNamed(Variants(ret.args[1])[Min(Matching(ret.args[1]))])

(***************************************************************************)
(* C18: taxid_for_name_and_group_taxid has three outcomes that a caller    *)
(* can tell apart: the taxid, when exactly one taxid of the name has the   *)
(* group taxid in its lineage; notFound, when none has; ambiguous, when    *)
(* more than one has, which is neither notFound nor one of the taxids.     *)
(***************************************************************************)
\* the taxids of the name, by the first of its variants that names a row,
\* that have the group taxid in their lineage
GroupHits(name, grp_taxid) ==
    IF Matching(name) = {} THEN {}
    ELSE {t \in TaxidsNamed(Variants(name)[Min(Matching(name))]) :
            grp_taxid \in ToSet(LineageOf(t))}

\* what the backend gives when no taxid of the name is in the group
NotFound == IF backend = "RAM" THEN RetNone ELSE RetInt(-2)

C18_ThreeOutcomes ==
    (Asked("taxid_for_name_and_group_taxid") /\ Valid(ret.arg)
       /\ ret.args[1] # <<>>) =>
        LET hits == GroupHits(ret.args[1], ret.arg)
        IN  IF Cardinality(hits) = 1 THEN \E t \in hits : ret.out = RetInt(t)
            ELSE IF hits = {} THEN ret.out = NotFound
            ELSE /\ ret.out.k # "raise"
                 /\ ret.out # NotFound
                 /\ ret.out.k = "int" => ret.out.v \notin hits

(***************************************************************************)
(* C19: higher_rank_for_taxid gives, for a valid taxid, a rank and a name  *)
(* class, the name of that class of the first node of the lineage, from    *)
(* the root, whose rank is the rank asked for, and the absent value when   *)
(* no node of the lineage has the rank; whether the other nodes of the     *)
(* lineage have a name of the class does not matter.                       *)
(***************************************************************************)
\* the positions of the lineage of taxid whose node has the rank
OfRank(taxid, rank) ==
    {i \in 1..Len(LineageOf(taxid)) : taxids_rank_dict[LineageOf(taxid)[i]] = rank}

\* the names of the class that the rows of the names table give the taxid
NamesIn(taxid, name_class) ==
    SelectSeq(tx_names, LAMBDA r : r.tax_id = taxid /\ r.name_class = name_class)

\* the value that stands for no name: None, or '' on TaxonomySQL
Absent == {RetNone, RetName(<<>>)}

C19_FirstOfRank ==
    (Asked("higher_rank_for_taxid") /\ Valid(ret.arg)) =>
        LET found == OfRank(ret.arg, ret.args[1])
            names == NamesIn(LineageOf(ret.arg)[Min(found)], ret.args[2])
        IN  IF found = {} THEN ret.out \in Absent
            ELSE names # <<>> => ret.out = RetName(names[1].name)

(***************************************************************************)
(* C20: the names a store gives for an active node are complete and in     *)
(* the order of the dump: every name that a row of the names table records *)
(* for the node under a name class is in the sequence given for that       *)
(* class, the names of a class in the order of their rows; so it is when   *)
(* one name string is recorded for the node under two name classes.        *)
(***************************************************************************)
\* a sequence without the later occurrences of an element
RECURSIVE FirstOccurrences(_, _)
FirstOccurrences(seq, seen) ==
    IF seq = <<>> THEN <<>>
    ELSE IF Head(seq) \in seen THEN FirstOccurrences(Tail(seq), seen)
    ELSE <<Head(seq)>> \o FirstOccurrences(Tail(seq), seen \cup {Head(seq)})

\* the names the dump records for the taxid under the class, in its order
Recorded(taxid, name_class) ==
    FirstOccurrences([i \in 1..Len(NamesIn(taxid, name_class)) |->
                         NamesIn(taxid, name_class)[i].name], {})

\* the names of the class in the outcome of names_for_taxid: an entry of the
\* dictionary of TaxonomySQL, the rows of the class in the list of TaxonomyRAM
GivenIn(out, name_class) ==
    IF out.k = "dict"
    THEN IF name_class \in DOMAIN out.d THEN out.d[name_class] ELSE <<>>
    ELSE IF out.k = "names"
    THEN LET rows == SelectSeq(out.s, LAMBDA r : r.name_class = name_class)
         IN  FirstOccurrences([i \in 1..Len(rows) |-> rows[i].name], {})
    ELSE <<>>

C20_CompleteInOrder ==
    /\ (Asked("names_for_taxid") /\ Active(ret.arg)) =>
          \A c \in NAME_CLASSES : GivenIn(ret.out, c) = Recorded(ret.arg, c)
    /\ (Asked("names_of_class_for_taxid") /\ Active(ret.arg)) =>
          IF Recorded(ret.arg, ret.args[1]) = <<>>
          THEN ret.out \in {RetNone, RetNames(<<>>)}
          ELSE /\ ret.out.k = "names"
               /\ FirstOccurrences(ret.out.s, {}) = Recorded(ret.arg, ret.args[1])

(***************************************************************************)
(* C21: for a taxid inside the Balanophoraceae clade (taxid 25673 is in    *)
(* its lineage, which in the taxonomy of NCBI lies inside a plastid-       *)
(* bearing clade), plastid_genetic_code_for_taxid returns code 32, not 11. *)
(***************************************************************************)
\* the nodes from n up to the root, by the parent pointers of the node table
RECURSIVE Ancestors(_, _)
Ancestors(n, fuel) ==
    IF n = root_taxid \/ fuel = 0 \/ ~Active(n) THEN {n}
    ELSE {n} \cup Ancestors(taxids_child_parent_dict[n], fuel - 1)

\* the taxids of the lineage of a valid taxid: those of the node it resolves to
TreeLineage(taxid) ==
    Ancestors(IF Active(taxid) THEN taxid ELSE taxids_merged_dict[taxid],
              Cardinality(DOMAIN taxids_child_parent_dict))

\* the lineage of taxid holds one of the plastid-bearing taxa
InPlastidClade(taxid) == TreeLineage(taxid) \cap TAXIDS_WITH_PLASTIDS # {}

\* the lineage of taxid holds Balanophoraceae
InBalanophoraceae(taxid) == taxid_bala \in TreeLineage(taxid)

C21_BalanophoraceaeCode ==
    (Asked("plastid_genetic_code_for_taxid") /\ Valid(ret.arg)
        /\ InPlastidClade(ret.arg) /\ InBalanophoraceae(ret.arg)) =>
        ret.out = RetInt(32)

BuiltFrom(d, tt, sc) ==
    /\ ToSet(d.start_codons) = {codons[i] : i \in {j \in 1..Len(sc) : sc[j] = "M"}}
    /\ ToSet(d.stop_codons) = {codons[i] : i \in {j \in 1..Len(sc) : sc[j] = "*"}}
    /\ DOMAIN d.trans_table \subseteq ToSet(codons)
    /\ \A i \in 1..Len(codons) :
          IF sc[i] = "*"
          THEN codons[i] \in DOMAIN d.trans_table /\ d.trans_table[codons[i]] = "*"
          ELSE IF tt[i] # "*"
          THEN codons[i] \in DOMAIN d.trans_table
               /\ d.trans_table[codons[i]] = tt[i]
          ELSE codons[i] \notin DOMAIN d.trans_table

\* the id the caller gave is the id of a row of gencode.dmp
KnownCode(gcid) == gcid.v \in DOMAIN gen_code_id_translation_table_dict

C23_PositionByPosition ==
    (Asked("trans_table_for_genetic_code_id") /\ KnownCode(ret.args[1])) =>
        /\ ret.out.k = "dict"
        /\ BuiltFrom(ret.out.d, gen_code_id_translation_table_dict[ret.args[1].v],
                     gen_code_id_start_codons_dict[ret.args[1].v])

(***************************************************************************)
(* C24: no query changes the state that the queries share: after any       *)
(* sequence of queries on a loaded store every loaded table, every stored  *)
(* list of children and every other class-level variable that the queries  *)
(* read is as it was.                                                      *)
(***************************************************************************)
C24_NothingMutated ==
    [][tables' = tables /\ taxid_node_dict' = taxid_node_dict]_vars

\* C24, as the code has it: no query changes a loaded table, a stored list
\* of children, the paths or the initialized flag; a query of TaxonomySQL may
\* add Nodes to the class-level cache _taxid_node_dict, and no query changes
\* or removes an entry the cache has.
C24_OnlyCacheGrows ==
    [][/\ tables' = tables
       /\ paths' = paths
       /\ taxonomy_initialized' = taxonomy_initialized
       /\ \A k \in DOMAIN taxid_node_dict :
             /\ k \in DOMAIN taxid_node_dict'
             /\ taxid_node_dict'[k] = taxid_node_dict[k]]_vars

\* the descendants of a taxid were asked of TaxonomySQL, and the cache
\* holds more than the root node that init put there
C24_Witness ==
    /\ backend = "SQL"
    /\ Asked("all_descending_taxids")
    /\ ret.out.k = "set" /\ ret.out.st # {}
    /\ Cardinality(DOMAIN taxid_node_dict) > 1

(***************************************************************************)
(* C25: the queries are transparent to merging.  For a merged taxid m      *)
(* that resolves to the node n, parent_taxid, children_taxids, the         *)
(* lineage and genetic_code_for_taxid give for m what they give for n,     *)
(* and no lineage or path that is returned holds m.                        *)
(***************************************************************************)
\* m is a row of the merged mapping and in no other table
MergedOnly(m) == Merged(m) /\ ~Active(m) /\ ~Deleted(m)

\* what the query op gives for the taxid n in this store
OutcomeFor(op, n) ==
    IF backend = "RAM"
    THEN IF op = "parent_taxid" THEN RAM_parent_taxid(n)
         ELSE IF op = "children_taxids" THEN RAM_children_taxids(n)
         ELSE IF op = "lineage" THEN RAM_lineage_for_taxid(n)
         ELSE RAM_genetic_code_for_taxid(n)
    ELSE IF op = "parent_taxid" THEN SQL_parent_taxid(n, taxid_node_dict).out
         ELSE IF op = "children_taxids"
         THEN SQL_children_taxids(n, taxid_node_dict).out
         ELSE IF op = "lineage" THEN SQL_lineage_of_taxids(n, taxid_node_dict).out
         ELSE SQL_genetic_code_for_taxid(n, taxid_node_dict).out

MergeTransparentOps == {"parent_taxid", "children_taxids", "lineage",
                        "genetic_code_for_taxid"}

C25_MergeTransparent ==
    /\ (ret.initd /\ ret.op \in MergeTransparentOps /\ MergedOnly(ret.arg)) =>
          ret.out = OutcomeFor(ret.op, taxids_merged_dict[ret.arg])
    /\ ((Asked("lineage") \/ Asked("path_between_taxids")) /\ ret.out.k = "seq") =>
          \A i \in 1..Len(ret.out.s) : ~MergedOnly(ret.out.s[i])

(***************************************************************************)
(* C26: path_between_taxids called with two different valid taxids that    *)
(* resolve to the same active node, a merged taxid and the taxid it was    *)
(* merged into, returns the single-element sequence that holds that node   *)
(* and does not fail.                                                      *)
(***************************************************************************)
\* m was merged into the node n, which reaches the root; neither taxid is
\* in another table
MergedInto(m, n) ==
    /\ MergedOnly(m)
    /\ taxids_merged_dict[m] = n
    /\ Reachable(n) /\ ~Merged(n) /\ ~Deleted(n)

C26_SameNodePath ==
    (Asked("path_between_taxids")
        /\ \/ MergedInto(ret.args[1], ret.args[2])
           \/ MergedInto(ret.args[2], ret.args[1])) =>
        ret.out = RetSeq(<<IF Active(ret.args[1]) THEN ret.args[1] ELSE ret.args[2]>>)

(***************************************************************************)
(* C29: on a well-formed rooted tree the common ancestor of valid taxids   *)
(* is deterministic: among the nodes common to all the lineages exactly    *)
(* one has the longest lineage, and the result depends neither on the      *)
(* order in which a set is gone through nor on the order of the taxids in  *)
(* the collection.  For TaxonomyRAM the statement is over stores where no   *)
(* taxid is in two tables.                                                 *)
(***************************************************************************)
\* the nodes common to all the lineages whose own lineage is longest
DeepestCommon(taxids) ==
    {x \in CommonToAll(taxids) :
        \A y \in CommonToAll(taxids) : LineageLen(y) <= LineageLen(x)}

C30_CacheCoherent ==
    backend = "SQL" =>
        \A k \in DOMAIN taxid_node_dict :
            /\ taxid_node_dict[k].tax_id = SQL_updated_taxid(k)
            /\ SQL_node_for_taxid(k, taxid_node_dict).out
                   = SQL_node_for_taxid(k, EmptyFn).out

\* a lineage was given; the cache holds, besides the root, a node that was
\* not the one asked for
C30_Witness ==
    /\ backend = "SQL"
    /\ Asked("lineage") /\ ret.out.k = "seq"
    /\ \E k \in DOMAIN taxid_node_dict :
          /\ k # root_taxid
          /\ k \notin {ret.arg} \cup ToSet(ret.args)

(***************************************************************************)
(* C28: on an initialized store init is a no-op and an update that needs   *)
(* no download is a no-op: init returns without reloading, the update      *)
(* returns 'no_changes', and the paths, the initialized flag and the       *)
(* loaded tables stay as they were; a load starts from an initialized      *)
(* store only through an update that found a download necessary.           *)
(***************************************************************************)
\* the step leaves the paths, the flag and every loaded table as they were
NothingReloaded ==
    /\ paths' = paths
    /\ taxonomy_initialized' = taxonomy_initialized
    /\ tables' = tables
    /\ pc' = pc

\* a call made on an initialized store on which no load is under way
OnInitialized == taxonomy_initialized /\ pc = Idle /\ ret = NoCall

\* a load that starts on an initialized store is an update that had to
\* download: a file of the dump was missing, or a check for updates was
\* asked for and found another release
LoadOnlyAfterDownload ==
    pc' # Idle =>
        /\ pc'.op \in {"update", "_update"}
        /\ \/ dmp.gen = 0
           \/ backend = "SQL" /\ dmp.gen # remote_gen

Comparing == pc = At("dnld", "check") /\ pc' # pc

\* the directory of the dump gets files only from an archive whose digest
\* is the reported one
ExtractedOnlyAfterMatch ==
    (dmp' # dmp /\ dmp' # NoDump) => (Comparing /\ md5_matches)

\* a mismatch extracts nothing and starts the next attempt
MismatchRetries ==
    (Comparing /\ ~md5_matches) =>
        /\ dmp' = dmp
        /\ pc' = At("dnld", "zip")
        /\ attempt' = attempt + 1

\* a match is the last attempt of the procedure
MatchEnds ==
    (Comparing /\ md5_matches) =>
        /\ pc' \in {Idle, At("dnld", "remove")}
        /\ attempt' = 0

C27_RetryUntilMatch ==
    [][ExtractedOnlyAfterMatch /\ MismatchRetries /\ MatchEnds]_vars

\* C27 without the new attempt after each mismatch
C27_ExtractOnlyOnMatch == [][ExtractedOnlyAfterMatch /\ MatchEnds]_vars

====
